---- MODULE Spec2Model ----
(***************************************************************************)
(* Fabric AI Gateway: the session state (ContextManager), the stdio       *)
(* JSON-RPC server (FabricMCPServer), and the SQL / DAX execution paths   *)
(* (WarehouseAdapter, SemanticModelAdapter, XMLAClient).                  *)
(*                                                                         *)
(* Python values are modelled as follows.  A str that the code only       *)
(* compares or echoes is a TLA+ string; a str the code inspects           *)
(* (strip / upper / startswith / in / replace) is a sequence of           *)
(* one-character strings.  None is the string NoneV for string-valued     *)
(* fields and the record NoneR for object-valued fields.  A dict is a     *)
(* record whose DOMAIN is the set of keys that are present.               *)
(***************************************************************************)
EXTENDS Integers, Sequences, FiniteSets, TLC

VARIABLES
    \* ---- ContextManager (src/src/context_manager.py)
    limits,             \* Limits, parsed once in __init__
    mode,               \* ConnectionMode
    semantic_context,   \* SemanticModelContext or NoneR
    warehouse_context,  \* WarehouseContext or NoneR
    cm_call,            \* the last ContextManager call and how it ended
    \* ---- WarehouseAdapter (src/src/warehouse_adapter.py)
    wa,                 \* _connection, _sql_endpoint, _database
    wa_call,            \* the last WarehouseAdapter call and how it ended
    \* ---- SemanticModelAdapter (src/src/semantic_adapter.py)
    sa,                 \* _connected_model_id, _connected_model_name, _xmla_endpoint
    sa_call,            \* the last SemanticModelAdapter call and how it ended
    \* ---- XMLAClient (src/src/utils/xmla_client.py)
    xmla_call,          \* the last XMLAClient.execute_dax call and how it ended
    \* ---- FabricMCPServer (src/src/mcp_server.py)
    srv,                \* the fields of the server object
    context_file,       \* ~/.fabric-gateway/context.json, NoneR when absent
    tools,              \* the catalog run() computed before the loop
    boot,               \* what initialize() was given: auth outcome, document
    run_pc,             \* "new", "loop" (reading stdin) or "returned"
    stdin_read,         \* the lines read so far, each with its environment
    stdout,             \* the responses printed so far
    stderr,             \* the number of messages written to stderr
    tool_call,          \* the last handle_tool call and its outcome
    \* ---- utility functions (src/src/utils)
    util_call           \* the last call of a utility function and its outcome

cm_vars == <<limits, mode, semantic_context, warehouse_context, cm_call>>

ad_vars == <<wa, wa_call, sa, sa_call, xmla_call>>

srv_vars == <<srv, context_file, tools, boot, run_pc, stdin_read, stdout, stderr, tool_call>>

ut_vars == <<util_call>>

vars == <<cm_vars, ad_vars, srv_vars, ut_vars>>

-----------------------------------------------------------------------------
(* Bounds *)

\* limits read from config.yaml range over 0..MaxLimit (and the defaults)
MaxLimit == 2
\* longest table list handed to the update operations (besides EightyTables)
MaxListLen == 2
\* most rows a backend holds for one query
MaxBackendRows == 2
\* lines read from standard input
MaxLines == 2
\* longest formula over FormulaChars handed to validate_dax_expression
MaxFormulaLen == 3
\* most pieces a response body of the XMLA endpoint is made of
MaxBodyWords == 2
\* longest schema.table argument over the characters s and .
MaxTableLen == 4

-----------------------------------------------------------------------------
(* Python helpers *)

NoneV == "None"
NoneR == [none |-> TRUE]

Min(a, b) == IF a <= b THEN a ELSE b
Max(a, b) == IF a >= b THEN a ELSE b

\* s[:n] for a list or str s
SliceTo(s, n) ==
    IF n >= 0 THEN SubSeq(s, 1, Min(n, Len(s)))
              ELSE SubSeq(s, 1, Max(0, Len(s) + n))

\* s[n:] for n >= 0
SliceFrom(s, n) == SubSeq(s, Min(n, Len(s)) + 1, Len(s))

Last(s) == s[Len(s)]

\* all sequences over S of length at most n
SeqsUpTo(S, n) == UNION {[1..k -> S] : k \in 0..n}

-----------------------------------------------------------------------------
(* Python str operations on sequences of characters *)

LowerCase == <<"a", "b", "c", "d", "e", "f", "g", "h", "i", "j", "k", "l", "m",
               "n", "o", "p", "q", "r", "s", "t", "u", "v", "w", "x", "y", "z">>
UpperCase == <<"A", "B", "C", "D", "E", "F", "G", "H", "I", "J", "K", "L", "M",
               "N", "O", "P", "Q", "R", "S", "T", "U", "V", "W", "X", "Y", "Z">>
Digits == <<"0", "1", "2", "3", "4", "5", "6", "7", "8", "9">>
Whitespace == {" ", "\t", "\n", "\r"}

UpperChar(c) ==
    IF \E i \in 1..26 : LowerCase[i] = c
        THEN UpperCase[CHOOSE i \in 1..26 : LowerCase[i] = c]
        ELSE c

\* s.upper()
Upper(s) == [i \in 1..Len(s) |-> UpperChar(s[i])]

\* s.strip()
Strip(s) ==
    LET keep == {i \in 1..Len(s) : s[i] \notin Whitespace}
    IN  IF keep = {} THEN <<>>
        ELSE SubSeq(s, CHOOSE i \in keep : \A j \in keep : i <= j,
                       CHOOSE i \in keep : \A j \in keep : i >= j)

LowerChar(c) ==
    IF \E i \in 1..26 : UpperCase[i] = c
        THEN LowerCase[CHOOSE i \in 1..26 : UpperCase[i] = c]
        ELSE c

\* s.lower()
Lower(s) == [i \in 1..Len(s) |-> LowerChar(s[i])]

\* s.count(c) for a character c
Count(s, c) == Cardinality({i \in 1..Len(s) : s[i] = c})

\* s.endswith(c) for a character c
EndsWith(s, c) == Len(s) > 0 /\ s[Len(s)] = c

\* s.startswith(p)
StartsWith(s, p) == Len(s) >= Len(p) /\ SubSeq(s, 1, Len(p)) = p

\* sub in s
Contains(s, sub) ==
    \E i \in 0..(Len(s) - Len(sub)) : SubSeq(s, i + 1, i + Len(sub)) = sub

\* s.replace(old, new), old non-empty: leftmost non-overlapping occurrences
RECURSIVE Replace(_, _, _)
Replace(s, old, new) ==
    IF Len(s) < Len(old) THEN s
    ELSE IF SubSeq(s, 1, Len(old)) = old
        THEN new \o Replace(SubSeq(s, Len(old) + 1, Len(s)), old, new)
        ELSE <<s[1]>> \o Replace(SubSeq(s, 2, Len(s)), old, new)

\* str(n) for an int n
RECURSIVE NatStr(_)
NatStr(n) == IF n < 10 THEN <<Digits[n + 1]>>
             ELSE NatStr(n \div 10) \o <<Digits[(n % 10) + 1]>>
IntStr(n) == IF n < 0 THEN <<"-">> \o NatStr(0 - n) ELSE NatStr(n)
\* literals of the source
Str_SELECT == <<"S", "E", "L", "E", "C", "T">>
Str_EVALUATE == <<"E", "V", "A", "L", "U", "A", "T", "E">>
Str_EVALUATE_SP == <<"E", "V", "A", "L", "U", "A", "T", "E", " ">>
Str_TOPN == <<"T", "O", "P", "N">>
Str_EVALUATE_TOPN == <<"E", "V", "A", "L", "U", "A", "T", "E", " ", "T", "O", "P", "N", "(">>
Str_COMMA_SP == <<",", " ">>
Str_RPAREN == <<")">>
Str_SELECT_1 == <<"S", "E", "L", "E", "C", "T", " ", "1">>
Str_SELECT_VERSION == <<"S", "E", "L", "E", "C", "T", " ", "@", "@", "V", "E", "R", "S", "I", "O", "N">>

\* dangerous (warehouse_adapter.py)
Dangerous ==
    << <<"I", "N", "S", "E", "R", "T">>,
       <<"U", "P", "D", "A", "T", "E">>,
       <<"D", "E", "L", "E", "T", "E">>,
       <<"D", "R", "O", "P">>,
       <<"T", "R", "U", "N", "C", "A", "T", "E">>,
       <<"A", "L", "T", "E", "R">>,
       <<"C", "R", "E", "A", "T", "E">>,
       <<"E", "X", "E", "C">> >>

\* SQL statements offered to the execute_sql paths
Sql_Select ==
    <<"S", "E", "L", "E", "C", "T", " ", "*", " ", "F", "R", "O", "M", " ", "t">>
Sql_SelectDrop ==
    <<"S", "E", "L", "E", "C", "T", " ", "*", " ", "F", "R", "O", "M", " ", "t", ";", " ", "D", "R", "O", "P", " ", "T", "A", "B", "L", "E", " ", "t", ";">>
Sql_LowerDrop ==
    <<" ", "s", "e", "l", "e", "c", "t", " ", "1", ";", " ", "d", "r", "o", "p", " ", "t", "a", "b", "l", "e", " ", "t">>
Sql_Drop ==
    <<"D", "R", "O", "P", " ", "T", "A", "B", "L", "E", " ", "t">>
Sql_Insert ==
    <<"I", "N", "S", "E", "R", "T", " ", "I", "N", "T", "O", " ", "t", " ", "V", "A", "L", "U", "E", "S", " ", "(", "1", ")">>
Sql_SelectUpdate ==
    <<"S", "E", "L", "E", "C", "T", " ", "1", ";", " ", "U", "p", "d", "a", "t", "e", " ", "t", " ", "S", "E", "T", " ", "a", " ", "=", " ", "1">>
Sql_SelectDelete ==
    <<"S", "E", "L", "E", "C", "T", " ", "1", ";", " ", "D", "E", "L", "E", "T", "E", " ", "F", "R", "O", "M", " ", "t">>
Sql_SelectTruncate ==
    <<"S", "E", "L", "E", "C", "T", " ", "1", ";", " ", "T", "R", "U", "N", "C", "A", "T", "E", " ", "T", "A", "B", "L", "E", " ", "t">>
Sql_SelectAlter ==
    <<"S", "E", "L", "E", "C", "T", " ", "1", ";", " ", "a", "l", "t", "e", "r", " ", "T", "A", "B", "L", "E", " ", "t", " ", "A", "D", "D", " ", "c">>
Sql_SelectCreate ==
    <<"S", "E", "L", "E", "C", "T", " ", "c", "r", "e", "a", "t", "e", "d", "_", "a", "t", " ", "F", "R", "O", "M", " ", "t">>
Sql_SelectExec ==
    <<"S", "E", "L", "E", "C", "T", " ", "1", ";", " ", "E", "X", "E", "C", " ", "s", "p">>
Sql_SelectInsert ==
    <<"S", "E", "L", "E", "C", "T", " ", "1", ";", " ", "I", "N", "S", "E", "R", "T", " ", "I", "N", "T", "O", " ", "t", " ", "V", "A", "L", "U", "E", "S", " ", "(", "1", ")">>
Sql_PaddedSelect ==
    <<"\n", " ", " ", "s", "e", "l", "e", "c", "t", " ", "a", " ", "F", "R", "O", "M", " ", "t", " ">>

SqlQueries ==
    { Sql_Select,
      Sql_SelectDrop,
      Sql_LowerDrop,
      Sql_Drop,
      Sql_Insert,
      Sql_SelectUpdate,
      Sql_SelectDelete,
      Sql_SelectTruncate,
      Sql_SelectAlter,
      Sql_SelectCreate,
      Sql_SelectExec,
      Sql_SelectInsert,
      Sql_PaddedSelect }

\* DAX queries offered to the execute_dax paths
Dax_Evaluate ==
    <<"E", "V", "A", "L", "U", "A", "T", "E", " ", "S", "a", "l", "e", "s">>
Dax_LowerEvaluate ==
    <<"e", "v", "a", "l", "u", "a", "t", "e", " ", "S", "a", "l", "e", "s">>
Dax_PaddedEvaluate ==
    <<" ", " ", "E", "V", "A", "L", "U", "A", "T", "E", " ", "S", "a", "l", "e", "s", "\n">>
Dax_Sum ==
    <<"S", "U", "M", "(", "S", "a", "l", "e", "s", "[", "A", "m", "o", "u", "n", "t", "]", ")">>
Dax_Select ==
    <<"S", "E", "L", "E", "C", "T", " ", "*", " ", "F", "R", "O", "M", " ", "T", "a", "b", "l", "e">>
Dax_Empty ==
    <<>>
Dax_TopnOnly ==
    <<"T", "O", "P", "N", "(", "1", ",", " ", "S", "a", "l", "e", "s", ")">>
Dax_EvaluateTopn ==
    <<"E", "V", "A", "L", "U", "A", "T", "E", " ", "T", "O", "P", "N", "(", "1", ",", " ", "S", "a", "l", "e", "s", ")">>
Dax_Eval ==
    <<"E", "V", "A", "L">>
Dax_InnerEvaluate ==
    <<"S", "a", "l", "e", "s", " ", "E", "V", "A", "L", "U", "A", "T", "E">>

DaxQueries ==
    { Dax_Evaluate,
      Dax_LowerEvaluate,
      Dax_PaddedEvaluate,
      Dax_Sum,
      Dax_Select,
      Dax_Empty,
      Dax_TopnOnly,
      Dax_EvaluateTopn,
      Dax_Eval,
      Dax_InnerEvaluate }

-----------------------------------------------------------------------------
(* ContextManager *)

NONE == "none"
SEMANTIC_MODEL == "semantic_model"
DATA_WAREHOUSE == "data_warehouse"

DefaultMaxDaxRows == 1000
DefaultMaxTablesInContext == 50
DefaultMaxColumnsPerTable == 100
DefaultSampleRows == 10
DefaultMaxSqlResultRows == 500

\* Limits(...) as _parse_limits builds it from the "limits" section
Limits(mt, mc) ==
    [max_dax_rows          |-> DefaultMaxDaxRows,
     max_tables_in_context |-> mt,
     max_columns_per_table |-> mc,
     sample_rows           |-> DefaultSampleRows,
     max_sql_result_rows   |-> DefaultMaxSqlResultRows]

DefaultLimits == Limits(DefaultMaxTablesInContext, DefaultMaxColumnsPerTable)

LimitValues(dflt) == (0..MaxLimit) \cup {dflt}

\* table dicts: with and without a "columns" key
TableDicts ==
    { [name |-> 1],
      [name |-> 2, columns |-> <<1, 2, 3>>] }

EightyTables ==
    [i \in 1..80 |-> IF i % 2 = 0 THEN [name |-> i, columns |-> <<1, 2, 3>>]
                                  ELSE [name |-> i]]

TableLists == SeqsUpTo(TableDicts, MaxListLen) \cup {EightyTables}

MeasureLists == { <<>>, <<[name |-> 1]>> }
RelationshipLists == { <<>>, <<[name |-> 1]>> }
SchemaLists == { <<>>, <<"dbo", "sales">> }

WorkspaceIds == {"ws1"}
ModelIds == {"m1"}
Endpoints == {"ep1", "ep2"}
Databases == {NoneV, "db1"}

SemanticModelContext(wid, wname, mid, mname) ==
    [workspace_id   |-> wid,
     workspace_name |-> wname,
     model_id       |-> mid,
     model_name     |-> mname,
     schema_loaded  |-> FALSE,
     tables         |-> <<>>,
     measures       |-> <<>>,
     relationships  |-> <<>>]

WarehouseContext(ep, db) ==
    [sql_endpoint    |-> ep,
     database_name   |-> db,
     schemas         |-> <<>>,
     tables_overview |-> <<>>]

\* ContextManager.__init__
CMInit(mt, mc) ==
    /\ limits = Limits(mt, mc)
    /\ mode = NONE
    /\ semantic_context = NoneR
    /\ warehouse_context = NoneR
    /\ cm_call = [op |-> "__init__", raised |-> FALSE]

\* what a call found: the mode, whether a semantic schema was loaded and
\* whether a warehouse overview was stored
Prior ==
    [mode |-> mode,
     schema_loaded |-> semantic_context # NoneR /\ semantic_context.schema_loaded,
     overview_stored |-> warehouse_context # NoneR
                            /\ warehouse_context.tables_overview # <<>>]

\* set_semantic_model that updates the identifiers of an existing semantic
\* context in place
set_semantic_model_in_place(wid, wname, mid, mname) ==
    /\ mode' = SEMANTIC_MODEL
    /\ warehouse_context' = NoneR
    /\ semantic_context' =
            IF semantic_context = NoneR
                THEN SemanticModelContext(wid, wname, mid, mname)
                ELSE [semantic_context EXCEPT !.workspace_id = wid,
                                              !.workspace_name = wname,
                                              !.model_id = mid,
                                              !.model_name = mname]
    /\ cm_call' = [op |-> "set_semantic_model", raised |-> FALSE, prior |-> Prior]
    /\ UNCHANGED limits

set_semantic_model(wid, wname, mid, mname) ==
    /\ mode' = SEMANTIC_MODEL
    /\ warehouse_context' = NoneR
    /\ semantic_context' = SemanticModelContext(wid, wname, mid, mname)
    /\ cm_call' = [op |-> "set_semantic_model", raised |-> FALSE, prior |-> Prior]
    /\ UNCHANGED limits

\* set_warehouse without the line that drops the semantic context
set_warehouse_keeps_semantic(ep, db) ==
    /\ mode' = DATA_WAREHOUSE
    /\ warehouse_context' = WarehouseContext(ep, db)
    /\ cm_call' = [op |-> "set_warehouse", raised |-> FALSE, prior |-> Prior]
    /\ UNCHANGED <<limits, semantic_context>>

set_warehouse(ep, db) ==
    /\ mode' = DATA_WAREHOUSE
    /\ semantic_context' = NoneR
    /\ warehouse_context' = WarehouseContext(ep, db)
    /\ cm_call' = [op |-> "set_warehouse", raised |-> FALSE, prior |-> Prior]
    /\ UNCHANGED limits

\* the loop that cuts each table's "columns" list
TruncateColumns(table, mc) ==
    IF "columns" \in DOMAIN table
        THEN [table EXCEPT !.columns = SliceTo(table.columns, mc)]
        ELSE table

\* the "Apply limits" block with the slice bound off by one
ApplySemanticLimits_off_by_one(tables, lim) ==
    LET cut == SliceTo(tables, lim.max_tables_in_context + 1)
    IN  [i \in 1..Len(cut) |-> TruncateColumns(cut[i], lim.max_columns_per_table)]

\* the "Apply limits" block of update_semantic_schema
ApplySemanticLimits(tables, lim) ==
    LET cut == SliceTo(tables, lim.max_tables_in_context)
    IN  [i \in 1..Len(cut) |-> TruncateColumns(cut[i], lim.max_columns_per_table)]

update_semantic_schema(tables, measures, relationships) ==
    IF semantic_context = NoneR
        THEN /\ cm_call' = [op |-> "update_semantic_schema", raised |-> TRUE,
                            error |-> "ValueError: No semantic model connected",
                            tables |-> tables]
             /\ UNCHANGED <<limits, mode, semantic_context, warehouse_context>>
        ELSE /\ semantic_context' =
                    [semantic_context EXCEPT
                        !.tables = ApplySemanticLimits(tables, limits),
                        !.measures = measures,
                        !.relationships = relationships,
                        !.schema_loaded = TRUE]
             /\ cm_call' = [op |-> "update_semantic_schema", raised |-> FALSE,
                            tables |-> tables]
             /\ UNCHANGED <<limits, mode, warehouse_context>>

\* the "Apply limits" line of update_warehouse_overview
ApplyWarehouseLimits(tables_overview, lim) ==
    SliceTo(tables_overview, lim.max_tables_in_context)

\* update_warehouse_overview that swaps the guard for a reset of the session
update_warehouse_overview_resets(schemas, tables_overview) ==
    IF warehouse_context = NoneR
        THEN /\ cm_call' = [op |-> "update_warehouse_overview", raised |-> TRUE,
                            error |-> "ValueError: No warehouse connected",
                            tables |-> tables_overview]
             /\ mode' = NONE
             /\ semantic_context' = NoneR
             /\ UNCHANGED <<limits, warehouse_context>>
        ELSE /\ warehouse_context' =
                    [warehouse_context EXCEPT
                        !.schemas = schemas,
                        !.tables_overview = ApplyWarehouseLimits(tables_overview, limits)]
             /\ cm_call' = [op |-> "update_warehouse_overview", raised |-> FALSE,
                            tables |-> tables_overview]
             /\ UNCHANGED <<limits, mode, semantic_context>>

update_warehouse_overview(schemas, tables_overview) ==
    IF warehouse_context = NoneR
        THEN /\ cm_call' = [op |-> "update_warehouse_overview", raised |-> TRUE,
                            error |-> "ValueError: No warehouse connected",
                            tables |-> tables_overview]
             /\ UNCHANGED <<limits, mode, semantic_context, warehouse_context>>
        ELSE /\ warehouse_context' =
                    [warehouse_context EXCEPT
                        !.schemas = schemas,
                        !.tables_overview = ApplyWarehouseLimits(tables_overview, limits)]
             /\ cm_call' = [op |-> "update_warehouse_overview", raised |-> FALSE,
                            tables |-> tables_overview]
             /\ UNCHANGED <<limits, mode, semantic_context>>

\* clear that forgets to drop the warehouse context
clear_keeps_warehouse ==
    /\ mode' = NONE
    /\ semantic_context' = NoneR
    /\ cm_call' = [op |-> "clear", raised |-> FALSE, prior |-> Prior]
    /\ UNCHANGED <<limits, warehouse_context>>

\* clear without the line that resets the mode
clear_keeps_mode ==
    /\ semantic_context' = NoneR
    /\ warehouse_context' = NoneR
    /\ cm_call' = [op |-> "clear", raised |-> FALSE, prior |-> Prior]
    /\ UNCHANGED <<limits, mode>>

clear ==
    /\ mode' = NONE
    /\ semantic_context' = NoneR
    /\ warehouse_context' = NoneR
    /\ cm_call' = [op |-> "clear", raised |-> FALSE, prior |-> Prior]
    /\ UNCHANGED limits

SetSemanticModel ==
    \E wid \in WorkspaceIds, mid \in ModelIds :
        /\ set_semantic_model(wid, "Workspace", mid, "Model")
        /\ UNCHANGED <<ad_vars, srv_vars, ut_vars>>

SetWarehouse ==
    \E ep \in Endpoints, db \in Databases :
        /\ set_warehouse(ep, db)
        /\ UNCHANGED <<ad_vars, srv_vars, ut_vars>>

UpdateSemanticSchema ==
    \E t \in TableLists, m \in MeasureLists, r \in RelationshipLists :
        /\ update_semantic_schema(t, m, r)
        /\ UNCHANGED <<ad_vars, srv_vars, ut_vars>>

UpdateWarehouseOverview ==
    \E s \in SchemaLists, t \in TableLists :
        /\ update_warehouse_overview(s, t)
        /\ UNCHANGED <<ad_vars, srv_vars, ut_vars>>

Clear == clear /\ UNCHANGED <<ad_vars, srv_vars, ut_vars>>

-----------------------------------------------------------------------------
(* Exceptions: a type and a message *)

Msg_OnlySelect ==
    <<"O", "n", "l", "y", " ", "S", "E", "L", "E", "C", "T", " ", "q", "u", "e", "r", "i", "e", "s", " ", "a", "r", "e", " ", "a", "l", "l", "o", "w", "e", "d">>
Msg_ForbiddenKeyword ==
    <<"Q", "u", "e", "r", "y", " ", "c", "o", "n", "t", "a", "i", "n", "s", " ", "f", "o", "r", "b", "i", "d", "d", "e", "n", " ", "k", "e", "y", "w", "o", "r", "d", ":", " ">>
Msg_EndpointNotSet ==
    <<"S", "Q", "L", " ", "e", "n", "d", "p", "o", "i", "n", "t", " ", "n", "o", "t", " ", "s", "e", "t", ".", " ", "C", "a", "l", "l", " ", "c", "o", "n", "n", "e", "c", "t", "(", ")", " ", "f", "i", "r", "s", "t", ".">>
Msg_NoSqlToken ==
    <<"F", "a", "i", "l", "e", "d", " ", "t", "o", " ", "g", "e", "t", " ", "S", "Q", "L", " ", "a", "c", "c", "e", "s", "s", " ", "t", "o", "k", "e", "n">>
Msg_ConnectionFailed ==
    <<"C", "o", "n", "n", "e", "c", "t", "i", "o", "n", " ", "f", "a", "i", "l", "e", "d", ":", " ">>
Msg_NotConnected ==
    <<"N", "o", "t", " ", "c", "o", "n", "n", "e", "c", "t", "e", "d", " ", "t", "o", " ", "a", " ", "m", "o", "d", "e", "l", ".", " ", "C", "a", "l", "l", " ", "c", "o", "n", "n", "e", "c", "t", "(", ")", " ", "f", "i", "r", "s", "t", ".">>
Msg_MustStartEvaluate ==
    <<"D", "A", "X", " ", "q", "u", "e", "r", "y", " ", "m", "u", "s", "t", " ", "s", "t", "a", "r", "t", " ", "w", "i", "t", "h", " ", "E", "V", "A", "L", "U", "A", "T", "E">>
Msg_DaxFailed ==
    <<"D", "A", "X", " ", "e", "x", "e", "c", "u", "t", "i", "o", "n", " ", "f", "a", "i", "l", "e", "d", ":", " ">>
Msg_NotAuthenticated ==
    <<"N", "o", "t", " ", "a", "u", "t", "h", "e", "n", "t", "i", "c", "a", "t", "e", "d", " ", "t", "o", " ", "P", "o", "w", "e", "r", " ", "B", "I">>
Msg_Backend ==
    <<"<", "b", "a", "c", "k", "e", "n", "d", " ", "e", "r", "r", "o", "r", ">">>

Exc(type, message) == [type |-> type, message |-> message]
NoExc == [type |-> "", message |-> <<>>]

\* Optional[int]: None is <<>>, an int n is <<n>>
NoInt == <<>>
Some(n) == <<n>>

-----------------------------------------------------------------------------
(* WarehouseAdapter (src/src/warehouse_adapter.py) *)

WarehouseAdapterInit ==
    [_connection |-> NoneR, _sql_endpoint |-> NoneV, _database |-> NoneV]

\* what the driver, the credential provider and the warehouse do during a call
WaEnvOk ==
    [probe_ok |-> TRUE, token_ok |-> TRUE, connect_ok |-> TRUE,
     exec_ok |-> TRUE, description |-> TRUE, backend_rows |-> 0]

\* everything answers (with any number of rows) or exactly one step fails,
\* with the liveness probe of a pooled connection passing or failing
WaEnvs ==
    LET first == {[WaEnvOk EXCEPT !.backend_rows = n] : n \in 0..MaxBackendRows}
                 \cup {[WaEnvOk EXCEPT !.token_ok = FALSE],
                       [WaEnvOk EXCEPT !.connect_ok = FALSE],
                       [WaEnvOk EXCEPT !.exec_ok = FALSE],
                       [WaEnvOk EXCEPT !.description = FALSE]}
    IN  {[e EXCEPT !.probe_ok = p] : e \in first, p \in BOOLEAN}

\* a _get_connection that opens a connection on every call
_get_connection_fresh(a, env) ==
    LET a1 == [a EXCEPT !._connection = NoneR]
        fail(e, tok) == [adapter |-> a1, raised |-> TRUE, error |-> e,
                         conn |-> NoneR, probed |-> FALSE, discarded |-> FALSE,
                         token_acquired |-> tok, token_bytes |-> NoneR,
                         connect_called |-> FALSE, opened |-> FALSE]
    IN  IF a1._sql_endpoint \in {NoneV, ""}
            THEN fail(Exc("RuntimeError", Msg_EndpointNotSet), FALSE)
        ELSE IF ~env.token_ok
            THEN fail(Exc("RuntimeError", Msg_NoSqlToken), TRUE)
        ELSE IF ~env.connect_ok
            THEN fail(Exc("pyodbc.Error", Msg_Backend), TRUE)
        ELSE LET c == [endpoint |-> a1._sql_endpoint,
                       database |-> IF a1._database \in {NoneV, ""}
                                        THEN "master" ELSE a1._database]
             IN  [adapter |-> [a1 EXCEPT !._connection = c],
                  raised |-> FALSE, error |-> NoExc, conn |-> c,
                  probed |-> FALSE, discarded |-> FALSE,
                  token_acquired |-> TRUE, token_bytes |-> NoneR,
                  connect_called |-> TRUE, opened |-> TRUE]

\* AuthManager.get_sql_token_bytes (src/src/auth.py): the token of the
\* provider with a four-byte length prefix, its text encoded as UTF-16-LE
\* (two bytes for each character of a token); None when there is no token.
\* The Optional[str] of get_token is <<>> for None and <<text>> for a string
get_sql_token_bytes(token) ==
    IF token = <<>> \/ token[1] = <<>> THEN NoneR
    ELSE [length_prefix |-> 2 * Len(token[1]), utf_16_le |-> token[1]]

\* what the credential provider returns for the SQL scope
SqlToken(ok) == IF ok THEN << <<"t", "o", "k">> >> ELSE <<>>

\* a _get_connection that goes on to pyodbc.connect whatever the provider
\* returned
_get_connection_unchecked(a, env) ==
    LET probing == a._connection # NoneR
        a1 == IF probing /\ ~env.probe_ok
                THEN [a EXCEPT !._connection = NoneR] ELSE a
        token_bytes == get_sql_token_bytes(SqlToken(env.token_ok))
        fail(e, tok, att) ==
            [adapter |-> a1, raised |-> TRUE, error |-> e,
             conn |-> NoneR, probed |-> probing, discarded |-> probing,
             token_acquired |-> tok,
             token_bytes |-> IF tok THEN token_bytes ELSE NoneR,
             connect_called |-> att, opened |-> FALSE]
    IN  IF probing /\ env.probe_ok
            THEN [adapter |-> a, raised |-> FALSE, error |-> NoExc,
                  conn |-> a._connection, probed |-> TRUE, discarded |-> FALSE,
                  token_acquired |-> FALSE, token_bytes |-> NoneR,
                  connect_called |-> FALSE, opened |-> FALSE]
        ELSE IF a1._sql_endpoint \in {NoneV, ""}
            THEN fail(Exc("RuntimeError", Msg_EndpointNotSet), FALSE, FALSE)
        ELSE IF ~env.connect_ok \/ ~env.token_ok
            THEN fail(Exc("pyodbc.Error", Msg_Backend), TRUE, TRUE)
        ELSE LET c == [endpoint |-> a1._sql_endpoint,
                       database |-> IF a1._database \in {NoneV, ""}
                                        THEN "master" ELSE a1._database,
                       attrs_before |-> token_bytes]
             IN  [adapter |-> [a1 EXCEPT !._connection = c],
                  raised |-> FALSE, error |-> NoExc, conn |-> c,
                  probed |-> probing, discarded |-> probing,
                  token_acquired |-> TRUE, token_bytes |-> token_bytes,
                  connect_called |-> TRUE, opened |-> TRUE]

\* _get_connection: the adapter afterwards, the connection or the exception;
\* discarded says that the probe of the pooled connection failed,
\* token_acquired that get_sql_token_bytes was called, token_bytes what it
\* returned, connect_called that pyodbc.connect was called
_get_connection(a, env) ==
    LET probing == a._connection # NoneR
        a1 == IF probing /\ ~env.probe_ok
                THEN [a EXCEPT !._connection = NoneR] ELSE a
        token_bytes == get_sql_token_bytes(SqlToken(env.token_ok))
        fail(e, tok, att) ==
            [adapter |-> a1, raised |-> TRUE, error |-> e,
             conn |-> NoneR, probed |-> probing, discarded |-> probing,
             token_acquired |-> tok,
             token_bytes |-> IF tok THEN token_bytes ELSE NoneR,
             connect_called |-> att, opened |-> FALSE]
    IN  IF probing /\ env.probe_ok
            THEN [adapter |-> a, raised |-> FALSE, error |-> NoExc,
                  conn |-> a._connection, probed |-> TRUE, discarded |-> FALSE,
                  token_acquired |-> FALSE, token_bytes |-> NoneR,
                  connect_called |-> FALSE, opened |-> FALSE]
        ELSE IF a1._sql_endpoint \in {NoneV, ""}
            THEN fail(Exc("RuntimeError", Msg_EndpointNotSet), FALSE, FALSE)
        ELSE IF token_bytes = NoneR
            THEN fail(Exc("RuntimeError", Msg_NoSqlToken), TRUE, FALSE)
        ELSE IF ~env.connect_ok
            THEN fail(Exc("pyodbc.Error", Msg_Backend), TRUE, TRUE)
        ELSE LET c == [endpoint |-> a1._sql_endpoint,
                       database |-> IF a1._database \in {NoneV, ""}
                                        THEN "master" ELSE a1._database,
                       attrs_before |-> token_bytes]
             IN  [adapter |-> [a1 EXCEPT !._connection = c],
                  raised |-> FALSE, error |-> NoExc, conn |-> c,
                  probed |-> probing, discarded |-> probing,
                  token_acquired |-> TRUE, token_bytes |-> token_bytes,
                  connect_called |-> TRUE, opened |-> TRUE]

\* the first keyword of the denylist found in query_upper, 0 when none is
FirstDangerous(query_upper) ==
    LET hits == {k \in 1..Len(Dangerous) : Contains(query_upper, Dangerous[k])}
    IN  IF hits = {} THEN 0 ELSE CHOOSE k \in hits : \A j \in hits : k <= j

\* a validation block that lets every statement through
ValidateSql_accepts(query) == NoExc

\* the validation block of execute_sql: the exception it raises, or NoExc
ValidateSql(query) ==
    LET query_upper == Upper(Strip(query))
        k == FirstDangerous(query_upper)
    IN  IF ~StartsWith(query_upper, Str_SELECT)
            THEN Exc("ValueError", Msg_OnlySelect)
        ELSE IF k # 0
            THEN Exc("ValueError", Msg_ForbiddenKeyword \o Dangerous[k])
        ELSE NoExc

\* the validation of each query of SqlQueries
SqlVerdict == [q \in SqlQueries |-> ValidateSql(q)]

\* execute_sql, v being what its validation block raised (NoExc: nothing):
\* the adapter afterwards and the outcome of the call
WaExecuteSqlOp(a, lim, query, v, max_rows, env) ==
    LET call == [op |-> "execute_sql", query |-> query, max_rows |-> max_rows,
                 raised |-> FALSE, error |-> NoExc, executed |-> <<>>,
                 rows |-> 0, probed |-> FALSE, discarded |-> FALSE,
                 token_acquired |-> FALSE, token_bytes |-> NoneR,
                 connect_called |-> FALSE,
                 opened |-> FALSE, cursor_open |-> FALSE]
    IN  IF v # NoExc
            THEN [adapter |-> a, call |-> [call EXCEPT !.raised = TRUE, !.error = v]]
        ELSE
        LET n == IF max_rows = NoInt THEN lim.max_sql_result_rows ELSE max_rows[1]
            g == _get_connection(a, env)
            c1 == [call EXCEPT !.probed = g.probed, !.discarded = g.discarded,
                               !.token_bytes = g.token_bytes,
                               !.connect_called = g.connect_called,
                               !.token_acquired = g.token_acquired,
                               !.opened = g.opened]
        IN  IF g.raised
                THEN [adapter |-> g.adapter,
                      call |-> [c1 EXCEPT !.raised = TRUE, !.error = g.error]]
            ELSE IF ~env.exec_ok
                THEN [adapter |-> g.adapter,
                      call |-> [c1 EXCEPT !.raised = TRUE,
                                          !.error = Exc("pyodbc.Error", Msg_Backend),
                                          !.executed = <<query>>,
                                          !.cursor_open = TRUE]]
            ELSE IF ~env.description
                THEN [adapter |-> g.adapter,
                      call |-> [c1 EXCEPT !.raised = TRUE,
                                          !.error = Exc("TypeError", Msg_Backend),
                                          !.executed = <<query>>,
                                          !.cursor_open = TRUE]]
            ELSE [adapter |-> g.adapter,
                  call |-> [c1 EXCEPT !.executed = <<query>>,
                                      !.rows = Min(env.backend_rows, n)]]

\* the connection test of connect()
WaConnectOp(a, ep, db, env) ==
    LET a0 == [a EXCEPT !._sql_endpoint = ep, !._database = db]
        g == _get_connection(a0, env)
        call == [op |-> "connect", query |-> <<>>, max_rows |-> NoInt,
                 raised |-> FALSE, error |-> NoExc, executed |-> <<>>,
                 rows |-> 0, probed |-> g.probed, discarded |-> g.discarded,
                 token_bytes |-> g.token_bytes, connect_called |-> g.connect_called,
                 token_acquired |-> g.token_acquired,
                 opened |-> g.opened, cursor_open |-> FALSE]
    IN  IF g.raised
            THEN [adapter |-> g.adapter,
                  call |-> [call EXCEPT !.raised = TRUE,
                              !.error = Exc("RuntimeError",
                                            Msg_ConnectionFailed \o g.error.message)]]
        ELSE IF ~env.exec_ok
            THEN [adapter |-> g.adapter,
                  call |-> [call EXCEPT !.raised = TRUE,
                              !.error = Exc("RuntimeError",
                                            Msg_ConnectionFailed \o Msg_Backend),
                              !.executed = <<Str_SELECT_VERSION>>,
                              !.cursor_open = TRUE]]
        ELSE [adapter |-> g.adapter,
              call |-> [call EXCEPT !.executed = <<Str_SELECT_VERSION>>]]

\* WarehouseAdapter.connect(sql_endpoint, database), inputs from EP, DB, E
WaConnectOn(EP, DB, E) ==
    \E ep \in EP, db \in DB, env \in E :
        LET r == WaConnectOp(wa, ep, db, env)
        IN  /\ env.description /\ env.backend_rows = 0
            /\ set_warehouse(ep, db)
            /\ wa' = r.adapter
            /\ wa_call' = r.call
            /\ UNCHANGED <<sa, sa_call, xmla_call, srv_vars, ut_vars>>

WaConnect == WaConnectOn(Endpoints, Databases, WaEnvs)

\* WarehouseAdapter.execute_sql(query, max_rows), inputs from Q, M, E
WaExecuteSqlOn(Q, M, E) ==
    \E query \in Q, max_rows \in M, env \in E :
        LET r == WaExecuteSqlOp(wa, limits, query, SqlVerdict[query], max_rows, env)
        IN  /\ wa' = r.adapter
            /\ wa_call' = r.call
            /\ UNCHANGED <<cm_vars, sa, sa_call, xmla_call, srv_vars, ut_vars>>

WaExecuteSql == WaExecuteSqlOn(SqlQueries, {NoInt, Some(1)}, WaEnvs)

Msg_SchemaTable ==
    <<"T", "a", "b", "l", "e", " ", "m", "u", "s", "t", " ", "b", "e", " ", "i", "n", " ", "f", "o", "r", "m", "a", "t", " ", "s", "c", "h", "e", "m", "a", ".", "t", "a", "b", "l", "e">>

\* a split that stops at the first occurrence of c
Split_once(s, c) ==
    LET hits == {i \in 1..Len(s) : s[i] = c}
    IN  IF hits = {} THEN <<s>>
        ELSE LET k == CHOOSE i \in hits : \A j \in hits : i <= j
             IN  <<SubSeq(s, 1, k - 1), SubSeq(s, k + 1, Len(s))>>

\* s.split(c) for a character c: the pieces between the occurrences of c
RECURSIVE Split(_, _)
Split(s, c) ==
    LET hits == {i \in 1..Len(s) : s[i] = c}
    IN  IF hits = {} THEN <<s>>
        ELSE LET k == CHOOSE i \in hits : \A j \in hits : i <= j
             IN  <<SubSeq(s, 1, k - 1)>> \o Split(SubSeq(s, k + 1, Len(s)), c)

\* the record of a call that takes a schema.table argument
TableCall(op, schema_table, n) ==
    [op |-> op, schema_table |-> schema_table, query |-> <<>>, max_rows |-> n,
     raised |-> FALSE, error |-> NoExc, executed |-> <<>>,
     rows |-> 0, probed |-> FALSE, discarded |-> FALSE,
     token_acquired |-> FALSE, token_bytes |-> NoneR,
     connect_called |-> FALSE,
     opened |-> FALSE, cursor_open |-> FALSE]

\* sample_rows(schema_table, n): the statement is SELECT TOP n, so the
\* warehouse answers with at most n rows
WaSampleRowsOp(a, lim, schema_table, n, env) ==
    LET call == TableCall("sample_rows", schema_table, n)
        parts == Split(schema_table, ".")
    IN  IF Len(parts) # 2
            THEN [adapter |-> a,
                  call |-> [call EXCEPT !.raised = TRUE,
                                        !.error = Exc("ValueError", Msg_SchemaTable)]]
        ELSE
        LET top == Min(IF n = NoInt THEN lim.sample_rows ELSE n[1], 50)
            stmt == [select_top |-> top, schema_name |-> parts[1],
                     table_name |-> parts[2]]
            g == _get_connection(a, env)
            c1 == [call EXCEPT !.probed = g.probed, !.discarded = g.discarded,
                               !.token_bytes = g.token_bytes,
                               !.connect_called = g.connect_called,
                               !.token_acquired = g.token_acquired,
                               !.opened = g.opened]
        IN  IF g.raised
                THEN [adapter |-> g.adapter,
                      call |-> [c1 EXCEPT !.raised = TRUE, !.error = g.error]]
            ELSE IF ~env.exec_ok \/ ~env.description
                THEN [adapter |-> g.adapter,
                      call |-> [c1 EXCEPT !.raised = TRUE,
                                          !.error = Exc("pyodbc.Error", Msg_Backend),
                                          !.executed = <<stmt>>,
                                          !.cursor_open = TRUE]]
            ELSE [adapter |-> g.adapter,
                  call |-> [c1 EXCEPT !.executed = <<stmt>>,
                                      !.rows = Min(env.backend_rows, Max(top, 0))]]

\* WarehouseAdapter.sample_rows(schema_table, n), inputs from T, N, E
WaSampleRowsOn(T, N, E) ==
    \E schema_table \in T, n \in N, env \in E :
        LET r == WaSampleRowsOp(wa, limits, schema_table, n, env)
        IN  /\ wa' = r.adapter
            /\ wa_call' = r.call
            /\ UNCHANGED <<cm_vars, sa, sa_call, xmla_call, srv_vars, ut_vars>>

\* profile_table(schema_table): the column query, then the two profiling
\* queries for each of the first ten columns, whose failures are skipped;
\* the table has env.backend_rows columns
WaProfileTableOp(a, lim, schema_table, env) ==
    LET call == TableCall("profile_table", schema_table, NoInt)
        parts == Split(schema_table, ".")
    IN  IF Len(parts) # 2
            THEN [adapter |-> a,
                  call |-> [call EXCEPT !.raised = TRUE,
                                        !.error = Exc("ValueError", Msg_SchemaTable)]]
        ELSE
        LET stmt == [columns_top |-> lim.max_columns_per_table,
                     schema_name |-> parts[1], table_name |-> parts[2]]
            g == _get_connection(a, env)
            c1 == [call EXCEPT !.probed = g.probed, !.discarded = g.discarded,
                               !.token_bytes = g.token_bytes,
                               !.connect_called = g.connect_called,
                               !.token_acquired = g.token_acquired,
                               !.opened = g.opened]
            columns == Min(env.backend_rows, lim.max_columns_per_table)
            profiled == Min(columns, 10)
        IN  IF g.raised
                THEN [adapter |-> g.adapter,
                      call |-> [c1 EXCEPT !.raised = TRUE, !.error = g.error]]
            ELSE IF ~env.exec_ok
                THEN [adapter |-> g.adapter,
                      call |-> [c1 EXCEPT !.raised = TRUE,
                                          !.error = Exc("pyodbc.Error", Msg_Backend),
                                          !.executed = <<stmt>>,
                                          !.cursor_open = TRUE]]
            ELSE [adapter |-> g.adapter,
                  call |-> [c1 EXCEPT
                              !.executed = <<stmt>> \o
                                  [k \in 1..(2 * profiled) |->
                                      [profile_column |-> (k + 1) \div 2,
                                       schema_name |-> parts[1],
                                       table_name |-> parts[2]]],
                              !.rows = columns]]

\* WarehouseAdapter.profile_table(schema_table), inputs from T, E
WaProfileTableOn(T, E) ==
    \E schema_table \in T, env \in E :
        LET r == WaProfileTableOp(wa, limits, schema_table, env)
        IN  /\ wa' = r.adapter
            /\ wa_call' = r.call
            /\ UNCHANGED <<cm_vars, sa, sa_call, xmla_call, srv_vars, ut_vars>>

\* WarehouseAdapter.close()
WaClose ==
    /\ wa' = [wa EXCEPT !._connection = NoneR]
    /\ wa_call' = [op |-> "close", query |-> <<>>, max_rows |-> NoInt,
                   raised |-> FALSE, error |-> NoExc, executed |-> <<>>,
                   rows |-> 0, probed |-> FALSE, discarded |-> FALSE,
                 token_acquired |-> FALSE, token_bytes |-> NoneR,
                 connect_called |-> FALSE,
                   opened |-> FALSE, cursor_open |-> FALSE]
    /\ UNCHANGED <<cm_vars, sa, sa_call, xmla_call, srv_vars, ut_vars>>

-----------------------------------------------------------------------------
(* XMLAClient.execute_dax (src/src/utils/xmla_client.py) *)

\* what the credential provider and the XMLA endpoint do during a call: the
\* endpoint answers with some rows, there is no token, or the post fails
XmlaEnvs ==
    {[token_ok |-> TRUE, http_ok |-> TRUE, backend_rows |-> n] : n \in 0..MaxBackendRows}
    \cup {[token_ok |-> FALSE, http_ok |-> TRUE, backend_rows |-> 0],
          [token_ok |-> TRUE, http_ok |-> FALSE, backend_rows |-> 0]}

\* the statement execute_dax puts into the SOAP body
XmlaDaxStatement(dax_query, max_rows) ==
    LET query_upper == Upper(Strip(dax_query))
    IN  IF ~Contains(query_upper, Str_TOPN) /\ max_rows > 0
            THEN Str_EVALUATE_TOPN \o IntStr(max_rows) \o Str_COMMA_SP
                    \o Strip(Replace(dax_query, Str_EVALUATE, <<>>)) \o Str_RPAREN
            ELSE dax_query

\* execute_dax: headers, post, raise_for_status, parse.  The endpoint holds
\* env.backend_rows rows for the query and applies the TOPN that execute_dax
\* wrapped around it
XmlaExecuteDaxOp(dax_query, max_rows, env) ==
    LET statement == XmlaDaxStatement(dax_query, max_rows)
        wrapped == statement # dax_query
        call == [op |-> "execute_dax", query |-> dax_query,
                 max_rows |-> Some(max_rows), raised |-> FALSE, error |-> NoExc,
                 sent |-> <<>>, rows |-> 0]
    IN  IF ~env.token_ok
            THEN [call EXCEPT !.raised = TRUE,
                              !.error = Exc("RuntimeError", Msg_NotAuthenticated)]
        ELSE IF ~env.http_ok
            THEN [call EXCEPT !.raised = TRUE,
                              !.error = Exc("HTTPError", Msg_Backend),
                              !.sent = <<statement>>]
        ELSE [call EXCEPT !.sent = <<statement>>,
                          !.rows = IF wrapped THEN Min(env.backend_rows, max_rows)
                                              ELSE env.backend_rows]

\* XMLAClient.execute_dax(dax_query, max_rows), inputs from Q, M, E
XmlaExecuteDaxOn(Q, M, E) ==
    \E q \in Q, max_rows \in M, env \in E :
        /\ xmla_call' = XmlaExecuteDaxOp(q, max_rows, env)
        /\ UNCHANGED <<cm_vars, wa, wa_call, sa, sa_call, srv_vars, ut_vars>>

XmlaExecuteDax ==
    XmlaExecuteDaxOn(DaxQueries, {0, MaxBackendRows, DefaultMaxDaxRows}, XmlaEnvs)

-----------------------------------------------------------------------------
(* SemanticModelAdapter (src/src/semantic_adapter.py) *)

SemanticAdapterInit ==
    [_connected_model_id |-> NoneV, _connected_model_name |-> NoneV,
     _xmla_endpoint |-> NoneV]

\* connect(model_id); listing is what list_models does: "found" the model,
\* "absent" from the list, or "error"
SaConnectOp(a, ctx, model_id, listing) ==
    LET a0 == [a EXCEPT !._connected_model_id = model_id]
    IN  IF ctx = NoneR THEN a0
        ELSE LET a1 == [a0 EXCEPT !._xmla_endpoint = ctx.workspace_name]
             IN  CASE listing = "found" -> [a1 EXCEPT !._connected_model_name = "Model"]
                   [] listing = "error" -> [a1 EXCEPT !._connected_model_name = model_id]
                   [] OTHER -> a1

\* a validation that looks for EVALUATE anywhere in the query
ValidateDax_anywhere(query) ==
    IF ~Contains(Upper(Strip(query)), Str_EVALUATE)
        THEN Exc("ValueError", Msg_MustStartEvaluate) ELSE NoExc

\* "Validate query starts with EVALUATE": the exception raised, or NoExc
ValidateDax(query) ==
    IF ~StartsWith(Upper(Strip(query)), Str_EVALUATE)
        THEN Exc("ValueError", Msg_MustStartEvaluate) ELSE NoExc

\* execute_dax(query, max_rows)
SaExecuteDaxOp(a, lim, query, max_rows, env) ==
    LET call == [op |-> "execute_dax", query |-> query, max_rows |-> max_rows,
                 raised |-> FALSE, error |-> NoExc, sent |-> <<>>, rows |-> 0]
    IN  IF a._connected_model_id \in {NoneV, ""}
            THEN [call EXCEPT !.raised = TRUE,
                              !.error = Exc("RuntimeError", Msg_NotConnected)]
        ELSE IF ValidateDax(query) # NoExc
            THEN [call EXCEPT !.raised = TRUE, !.error = ValidateDax(query)]
        ELSE
        LET n == IF max_rows = NoInt THEN lim.max_dax_rows ELSE max_rows[1]
        IN  IF a._xmla_endpoint = NoneV
                \* XMLAClient(None, ...) fails in _normalize_endpoint
                THEN [call EXCEPT !.raised = TRUE,
                                  !.error = Exc("RuntimeError", Msg_DaxFailed \o Msg_Backend)]
            ELSE LET x == XmlaExecuteDaxOp(query, n, env)
                 IN  IF x.raised
                        THEN [call EXCEPT !.raised = TRUE,
                                  !.error = Exc("RuntimeError",
                                                Msg_DaxFailed \o x.error.message),
                                  !.sent = x.sent]
                        ELSE [call EXCEPT !.sent = x.sent, !.rows = x.rows]

\* SemanticModelAdapter.connect(model_id), model ids from M
SaConnectOn(M) ==
    \E model_id \in M, listing \in {"found", "absent", "error"} :
        /\ sa' = SaConnectOp(sa, semantic_context, model_id, listing)
        /\ sa_call' = [op |-> "connect", query |-> <<>>, max_rows |-> NoInt,
                       raised |-> FALSE, error |-> NoExc, sent |-> <<>>, rows |-> 0]
        /\ UNCHANGED <<cm_vars, wa, wa_call, xmla_call, srv_vars, ut_vars>>

Msg_SchemaFailed ==
    <<"F", "a", "i", "l", "e", "d", " ", "t", "o", " ", "g", "e", "t", " ", "s", "c", "h", "e", "m", "a", ":", " ">>

\* the four DMV queries of get_schema, by the rowset they read
SchemaDmvs ==
    <<"TMSCHEMA_TABLES", "TMSCHEMA_COLUMNS", "TMSCHEMA_MEASURES", "TMSCHEMA_RELATIONSHIPS">>

\* get_schema(): the connected check, then the four query_dmv calls of a new
\* XMLAClient inside the try
SaGetSchemaOp(a, env) ==
    LET call == [op |-> "get_schema", raised |-> FALSE, error |-> NoExc, sent |-> <<>>]
        failed(message, sent) ==
            [call EXCEPT !.raised = TRUE, !.sent = sent,
                         !.error = Exc("RuntimeError", Msg_SchemaFailed \o message)]
    IN  IF a._connected_model_id \in {NoneV, ""}
            THEN [call EXCEPT !.raised = TRUE,
                              !.error = Exc("RuntimeError", Msg_NotConnected)]
        ELSE IF a._xmla_endpoint = NoneV
            \* XMLAClient(None, ...) fails in _normalize_endpoint
            THEN failed(Msg_Backend, <<>>)
        ELSE IF ~env.token_ok THEN failed(Msg_NotAuthenticated, <<>>)
        ELSE IF ~env.http_ok THEN failed(Msg_Backend, <<SchemaDmvs[1]>>)
        ELSE [call EXCEPT !.sent = SchemaDmvs]

\* SemanticModelAdapter.get_schema()
SaGetSchema ==
    \E env \in XmlaEnvs :
        /\ sa_call' = SaGetSchemaOp(sa, env)
        /\ UNCHANGED <<cm_vars, wa, wa_call, sa, xmla_call, srv_vars, ut_vars>>

\* SemanticModelAdapter.connect(model_id)
SaConnect ==
    \E model_id \in ModelIds, listing \in {"found", "absent", "error"} :
        /\ sa' = SaConnectOp(sa, semantic_context, model_id, listing)
        /\ sa_call' = [op |-> "connect", query |-> <<>>, max_rows |-> NoInt,
                       raised |-> FALSE, error |-> NoExc, sent |-> <<>>, rows |-> 0]
        /\ UNCHANGED <<cm_vars, wa, wa_call, xmla_call, srv_vars, ut_vars>>

\* SemanticModelAdapter.execute_dax(query, max_rows), inputs from Q, M, E
SaExecuteDaxOn(Q, M, E) ==
    \E q \in Q, max_rows \in M, env \in E :
        /\ sa_call' = SaExecuteDaxOp(sa, limits, q, max_rows, env)
        /\ UNCHANGED <<cm_vars, wa, wa_call, sa, xmla_call, srv_vars, ut_vars>>

SaExecuteDax ==
    SaExecuteDaxOn(DaxQueries, {NoInt, Some(0), Some(MaxBackendRows)}, XmlaEnvs)

-----------------------------------------------------------------------------
(* FabricMCPServer: the tool dispatcher (src/src/mcp_server.py) *)

\* d.get(k, default) on a dict d
Get(d, k, default) == IF k \in DOMAIN d THEN d[k] ELSE default

\* "not v" for a str-or-None v
Falsy(v) == v = NoneV \/ v = ""

\* "a or b" for str-or-None values
Or(a, b) == IF Falsy(a) THEN b ELSE a

\* FabricMCPServer.__init__
ServerInit ==
    [mode |-> "semantic", sql_endpoint |-> NoneV, workspace_id |-> NoneV,
     workspace_name |-> NoneV, dataset_id |-> NoneV, dataset_name |-> NoneV,
     database_name |-> NoneV, token |-> NoneV, xmla_client |-> NoneV]

SemanticTools ==
    <<"list_workspaces", "list_datasets", "connect_dataset", "get_tables",
      "get_columns", "get_measures", "get_relationships", "execute_dax",
      "get_dataset_info", "refresh_dataset", "create_measure", "delete_measure",
      "create_relationship">>

WarehouseTools == <<"get_warehouse_tables", "execute_sql", "describe_table">>

Range(s) == {s[i] : i \in 1..Len(s)}

\* get_tools: the names of the tool definitions for the mode
get_tools(s) == IF s.mode = "semantic" THEN SemanticTools ELSE WarehouseTools

\* what the REST service, the file system, the ODBC driver and the warehouse
\* do during one tool call
DefaultEnv ==
    [rest |-> "ok", tmsl |-> "success", file_ok |-> TRUE, pyodbc |-> TRUE,
     conn_ok |-> TRUE, exec_ok |-> TRUE, description |-> TRUE, backend_rows |-> 0,
     sql_token_ok |-> TRUE]

\* the fixed DAX texts of get_tables / get_columns, get_measures and
\* get_relationships (the column lists of the SELECTCOLUMNS calls left out)
Dax_ColumnStatistics ==
    <<"E", "V", "A", "L", "U", "A", "T", "E", " ", "C", "O", "L", "U", "M", "N", "S", "T", "A", "T", "I", "S", "T", "I", "C", "S", "(", ")">>
Dax_InfoMeasures ==
    <<"E", "V", "A", "L", "U", "A", "T", "E", " ", "S", "E", "L", "E", "C", "T", "C", "O", "L", "U", "M", "N", "S", "(", "I", "N", "F", "O", ".", "M", "E", "A", "S", "U", "R", "E", "S", "(", ")", ")">>
Dax_InfoRelationships ==
    <<"E", "V", "A", "L", "U", "A", "T", "E", " ", "S", "E", "L", "E", "C", "T", "C", "O", "L", "U", "M", "N", "S", "(", "I", "N", "F", "O", ".", "R", "E", "L", "A", "T", "I", "O", "N", "S", "H", "I", "P", "S", "(", ")", ")">>

\* the outcome of one handler: its return value, the server afterwards, the
\* context document it wrote (NoneR when none), the REST requests it sent,
\* the statements it handed to the cursor, and whether a connection it
\* opened is still open when it returns
Outcome(result, s) ==
    [result |-> result, srv |-> s, file |-> NoneR, rest |-> <<>>, sql |-> <<>>,
     conn_opened |-> FALSE, conn_open |-> FALSE,
     sql_token_requested |-> FALSE, tokenstruct |-> NoneR, conn_attempted |-> FALSE]

Err(fragments) == [error |-> fragments]

\* the response that raise_for_status attaches to the HTTPError it raises:
\* one with a 4xx or 5xx status
HTTPErrorResponse == [status_code |-> 404, text |-> "<body>"]

\* "if e.response": requests.Response is truthy when its status is below 400
ResponseTruthy(r) == r.status_code < 400

\* semantic_request(method, path, data) and the except clauses of
\* handle_semantic around it: the reply when the request succeeds is ok
SemanticRequest(s, verb, path, data, ok, env) ==
    LET req == [verb |-> verb, path |-> path, data |-> data, bearer |-> s.token]
        o == Outcome(ok, s)
    IN  CASE env.rest = "ok" -> [o EXCEPT !.rest = <<req>>]
          [] env.rest = "http_error" ->
                \* "e.response.text if e.response else None"
                [o EXCEPT !.rest = <<req>>,
                          !.result = [error |-> <<"<HTTPError>">>,
                                      response |-> IF ResponseTruthy(HTTPErrorResponse)
                                                      THEN HTTPErrorResponse.text
                                                      ELSE NoneV]]
          [] OTHER -> [o EXCEPT !.rest = <<req>>, !.result = Err(<<"<Exception>">>)]

\* the same call inside the inner try of get_measures / get_relationships
InfoRequest(s, path, data, ok, what, env) ==
    LET o == SemanticRequest(s, "POST", path, data, ok, env)
    IN  CASE env.rest = "ok" -> o
          [] env.rest = "http_error" ->
                \* "error_detail = e.response.text if e.response else str(e)"
                [o EXCEPT !.result =
                    Err(<<what, " failed: ",
                          IF ResponseTruthy(HTTPErrorResponse)
                              THEN HTTPErrorResponse.text ELSE "<HTTPError>">>)]
          [] OTHER -> [o EXCEPT !.result = Err(<<what, " failed: ", "<Exception>">>)]

QueryPath(s) == <<"groups", s.workspace_id, "datasets", s.dataset_id, "executeQueries">>

\* a TMSL branch that sends the command whether or not a client exists
TmslOutcome_always_sends(s, args, tmsl, done, note, env) ==
    LET req == [verb |-> "POST", path |-> <<"xmla">>, data |-> [tmsl |-> tmsl],
                bearer |-> s.token]
    IN  IF env.tmsl = "success"
            THEN [Outcome([status |-> "success", message |-> done], s)
                    EXCEPT !.rest = <<req>>]
            ELSE [Outcome([status |-> "error", message |-> "<message>",
                           tmsl |-> tmsl], s)
                    EXCEPT !.rest = <<req>>]

\* the TMSL branch shared by create_measure, delete_measure, create_relationship:
\* execute_tmsl when asked to and an XMLA client exists, else hand the TMSL back
TmslOutcome(s, args, tmsl, done, note, env) ==
    LET execute_now == Get(args, "execute", TRUE)
        req == [verb |-> "POST", path |-> <<"xmla">>, data |-> [tmsl |-> tmsl],
                bearer |-> s.token]
    IN  IF execute_now /\ s.xmla_client # NoneV
            THEN IF env.tmsl = "success"
                    THEN [Outcome([status |-> "success", message |-> done], s)
                            EXCEPT !.rest = <<req>>]
                    ELSE [Outcome([status |-> "error", message |-> "<message>",
                                   tmsl |-> tmsl], s)
                            EXCEPT !.rest = <<req>>]
            ELSE Outcome([status |-> "tmsl_generated", note |-> note, tmsl |-> tmsl], s)

handle_semantic(s, name, args, env) ==
    LET no_dataset(msg) == Outcome(Err(<<msg>>), s)
    IN
    CASE name = "list_workspaces" ->
            SemanticRequest(s, "GET", <<"groups">>, NoneR,
                            [workspaces |-> "<rows>"], env)
      [] name = "list_datasets" ->
            LET ws_id == Or(Get(args, "workspace_id", NoneV), s.workspace_id)
            IN  IF Falsy(ws_id)
                    THEN Outcome(Err(<<"No workspace_id. Use list_workspaces first.">>), s)
                    ELSE SemanticRequest(s, "GET", <<"groups", ws_id, "datasets">>,
                                         NoneR, [datasets |-> "<rows>"], env)
      [] name = "connect_dataset" ->
            LET ws_id == Or(Get(args, "workspace_id", NoneV), s.workspace_id)
                ds_id == Get(args, "dataset_id", NoneV)
                s1 == [s EXCEPT !.workspace_id = ws_id, !.dataset_id = ds_id]
                ctx == [mode |-> "semantic", workspace_id |-> ws_id, item_id |-> ds_id]
            IN  IF Falsy(ws_id) \/ Falsy(ds_id)
                    THEN Outcome(Err(<<"workspace_id and dataset_id required">>), s)
                ELSE IF ~env.file_ok
                    THEN Outcome(Err(<<"<OSError>">>), s1)
                ELSE [Outcome([status |-> "connected", workspace_id |-> ws_id,
                               dataset_id |-> ds_id], s1)
                        EXCEPT !.file = ctx]
      [] name = "get_tables" ->
            IF Falsy(s.dataset_id)
                THEN no_dataset("No dataset connected. Use connect_dataset first.")
                ELSE SemanticRequest(s, "POST", QueryPath(s),
                        [query |-> Dax_ColumnStatistics],
                        [tables |-> "<names>", column_counts |-> "<counts>"], env)
      [] name = "execute_dax" ->
            IF Falsy(s.dataset_id)
                THEN no_dataset("No dataset connected. Use connect_dataset first.")
                ELSE LET q == Get(args, "query", <<>>)
                         q1 == IF ~StartsWith(Upper(Strip(q)), Str_EVALUATE)
                                    THEN Str_EVALUATE_SP \o q ELSE q
                     IN  SemanticRequest(s, "POST", QueryPath(s), [query |-> q1],
                                         [results |-> "<rows>"], env)
      [] name = "get_dataset_info" ->
            IF Falsy(s.dataset_id) THEN no_dataset("No dataset connected")
                ELSE SemanticRequest(s, "GET",
                        <<"groups", s.workspace_id, "datasets", s.dataset_id>>,
                        NoneR, [dataset |-> "<info>"], env)
      [] name = "refresh_dataset" ->
            IF Falsy(s.dataset_id) THEN no_dataset("No dataset connected")
                ELSE SemanticRequest(s, "POST",
                        <<"groups", s.workspace_id, "datasets", s.dataset_id, "refreshes">>,
                        NoneR, [status |-> "refresh_triggered"], env)
      [] name = "get_measures" ->
            IF Falsy(s.dataset_id) THEN no_dataset("No dataset connected")
                ELSE InfoRequest(s, QueryPath(s), [query |-> Dax_InfoMeasures],
                                 [measures |-> "<rows>"], "INFO.MEASURES()", env)
      [] name = "get_relationships" ->
            IF Falsy(s.dataset_id) THEN no_dataset("No dataset connected")
                ELSE InfoRequest(s, QueryPath(s), [query |-> Dax_InfoRelationships],
                                 [relationships |-> "<rows>"], "INFO.RELATIONSHIPS()", env)
      [] name = "get_columns" ->
            IF Falsy(s.dataset_id) THEN no_dataset("No dataset connected")
                ELSE SemanticRequest(s, "POST", QueryPath(s),
                        [query |-> Dax_ColumnStatistics],
                        [columns |-> "<rows>", filter |-> Get(args, "table_name", NoneV)],
                        env)
      [] name = "create_measure" ->
            LET table_name == Get(args, "table_name", NoneV)
                measure_name == Get(args, "name", NoneV)
                expression == Get(args, "expression", NoneV)
                tmsl == [createOrReplace |->
                            [object |-> [database |-> Or(s.dataset_name, s.dataset_id),
                                         table |-> table_name,
                                         measure |-> measure_name],
                             measure |-> [name |-> measure_name,
                                          expression |-> expression,
                                          description |-> Get(args, "description", "")]]]
            IN  IF Falsy(s.dataset_id) THEN no_dataset("No dataset connected")
                ELSE IF Falsy(table_name) \/ Falsy(measure_name) \/ Falsy(expression)
                    THEN Outcome(Err(<<"table_name, name, and expression are required">>), s)
                ELSE TmslOutcome(s, args, tmsl, <<"Measure '", measure_name, "' created successfully!">>,
                        "XMLA client not available. Execute this TMSL manually in SSMS or Tabular Editor.",
                        env)
      [] name = "delete_measure" ->
            LET table_name == Get(args, "table_name", NoneV)
                measure_name == Get(args, "name", NoneV)
                tmsl == [delete |->
                            [object |-> [database |-> Or(s.dataset_name, s.dataset_id),
                                         table |-> table_name,
                                         measure |-> measure_name]]]
            IN  IF Falsy(s.dataset_id) THEN no_dataset("No dataset connected")
                ELSE IF Falsy(table_name) \/ Falsy(measure_name)
                    THEN Outcome(Err(<<"table_name and name are required">>), s)
                ELSE TmslOutcome(s, args, tmsl, <<"Measure '", measure_name, "' deleted successfully!">>,
                        "XMLA client not available. Execute this TMSL manually.", env)
      [] name = "create_relationship" ->
            LET from_table == Get(args, "from_table", NoneV)
                from_column == Get(args, "from_column", NoneV)
                to_table == Get(args, "to_table", NoneV)
                to_column == Get(args, "to_column", NoneV)
                rel_name == <<from_table, "_", from_column, "_", to_table, "_", to_column>>
                tmsl == [createOrReplace |->
                            [object |-> [database |-> Or(s.dataset_name, s.dataset_id),
                                         relationship |-> rel_name],
                             relationship |-> [name |-> rel_name,
                                               fromTable |-> from_table,
                                               fromColumn |-> from_column,
                                               toTable |-> to_table,
                                               toColumn |-> to_column,
                                               isActive |-> Get(args, "is_active", TRUE)]]]
            IN  IF Falsy(from_table) \/ Falsy(from_column)
                        \/ Falsy(to_table) \/ Falsy(to_column)
                    THEN Outcome(Err(<<"from_table, from_column, to_table, to_column are required">>), s)
                ELSE TmslOutcome(s, args, tmsl, <<"Relationship '">> \o rel_name \o <<"' created successfully!">>,
                        "XMLA client not available. Execute this TMSL manually.", env)
      [] OTHER -> Outcome(Err(<<"Unknown tool: ", name>>), s)

\* the token packing of get_sql_connection: every byte of the token followed
\* by a zero byte, which for a token of ASCII characters is its UTF-16-LE
\* encoding, behind a four-byte length
SqlTokenStruct(text) == [length_prefix |-> 2 * Len(text), utf_16_le |-> text]

\* get_sql_connection: the exception it raises, or NoExc.  bytes(None,
\* "UTF-8") raises TypeError when the provider returned no token
get_sql_connection(s, env) ==
    IF ~env.pyodbc THEN Exc("ImportError", <<"pyodbc not installed">>)
    ELSE IF Falsy(s.sql_endpoint) THEN Exc("ValueError", <<"No SQL endpoint provided">>)
    ELSE IF SqlToken(env.sql_token_ok) = <<>>
        THEN Exc("TypeError", <<"encoding without a string argument">>)
    ELSE IF ~env.conn_ok THEN Exc("Exception", <<"<connect failed>">>)
    ELSE NoExc

\* a get_sql_connection that connects with whatever the provider returned
get_sql_connection_unchecked(s, env) ==
    IF ~env.pyodbc THEN Exc("ImportError", <<"pyodbc not installed">>)
    ELSE IF Falsy(s.sql_endpoint) THEN Exc("ValueError", <<"No SQL endpoint provided">>)
    ELSE IF ~env.conn_ok THEN Exc("Exception", <<"<connect failed>">>)
    ELSE NoExc

handle_warehouse(s, name, args, env) ==
    LET c == get_sql_connection(s, env)
        \* how far get_sql_connection got: get_token(service="sql") called,
        \* the token packed, pyodbc.connect called
        requested == c.type \notin {"ImportError", "ValueError"}
        attempted == requested /\ c.type # "TypeError"
        reached(out) ==
            [out EXCEPT !.sql_token_requested = requested,
                        !.conn_attempted = attempted,
                        !.tokenstruct =
                            IF requested /\ SqlToken(env.sql_token_ok) # <<>>
                                THEN SqlTokenStruct(SqlToken(env.sql_token_ok)[1])
                                ELSE NoneR]
        o == reached([Outcome(NoneR, s) EXCEPT !.conn_opened = TRUE])
        \* cursor.execute(stmt) raised: the except clause returns, nothing is closed
        failed(stmt) == [o EXCEPT !.result = Err(<<"<pyodbc.Error>">>),
                                  !.sql = <<stmt>>, !.conn_open = TRUE]
    IN
    IF c # NoExc THEN reached(Outcome(Err(c.message), s))
    ELSE
    CASE name = "get_warehouse_tables" ->
            LET stmt == [text |-> <<>>, tables_of_schema |-> Get(args, "schema", NoneV)]
            IN  IF ~env.exec_ok THEN failed(stmt)
                ELSE [o EXCEPT !.result = [tables |-> "<rows>"], !.sql = <<stmt>>]
      [] name = "execute_sql" ->
            IF "query" \notin DOMAIN args
                \* cursor.execute(None) raises TypeError
                THEN [o EXCEPT !.result = Err(<<"<TypeError>">>), !.conn_open = TRUE]
            ELSE
            LET stmt == [text |-> args.query]
            IN  IF ~env.exec_ok THEN failed(stmt)
                ELSE IF env.description
                    THEN [o EXCEPT !.result = [columns |-> "<names>",
                                               rows |-> Min(env.backend_rows, 100)],
                                   !.sql = <<stmt>>]
                    ELSE [o EXCEPT !.result = [status |-> "success",
                                               rows_affected |-> env.backend_rows],
                                   !.sql = <<stmt>>]
      [] name = "describe_table" ->
            LET stmt == [text |-> <<>>,
                         columns_of_schema |-> Get(args, "schema", "dbo"),
                         columns_of_table |-> Get(args, "table_name", NoneV)]
            IN  IF ~env.exec_ok THEN failed(stmt)
                ELSE [o EXCEPT !.result = [columns |-> "<rows>"], !.sql = <<stmt>>]
      [] OTHER -> [o EXCEPT !.result = Err(<<"Unknown tool: ", name>>)]

\* a dispatcher that picks the handler by the tool's name
handle_tool_by_name(s, name, args, env) ==
    IF name \in Range(SemanticTools) THEN handle_semantic(s, name, args, env)
    ELSE IF name \in Range(WarehouseTools) THEN handle_warehouse(s, name, args, env)
    ELSE Outcome(Err(<<"Unknown mode: ", s.mode>>), s)

handle_tool(s, name, args, env) ==
    IF s.mode = "semantic" THEN handle_semantic(s, name, args, env)
    ELSE IF s.mode = "warehouse" THEN handle_warehouse(s, name, args, env)
    ELSE Outcome(Err(<<"Unknown mode: ", s.mode>>), s)

-----------------------------------------------------------------------------
(* FabricMCPServer: initialize() and the stdio loop of run() *)

\* an empty dict ({}): every dict of the protocol carries this marker key
EmptyDict == [dict |-> TRUE]

\* a context.json that json.load cannot parse
BadDoc == [corrupt |-> TRUE]

\* context.json as mcp_cloud_fabric.save_context and connect_dataset write it,
\* and one naming a mode the server does not know
Doc_Connected == [mode |-> "semantic", workspace_id |-> "ws1", item_id |-> "ds1"]
Doc_Semantic ==
    [mode |-> "semantic", workspace_id |-> "ws1", workspace_name |-> "Workspace",
     item_id |-> NoneV, item_name |-> NoneV, sql_endpoint |-> NoneV]
Doc_Warehouse ==
    [mode |-> "warehouse", workspace_id |-> "ws1", workspace_name |-> "Workspace",
     item_id |-> NoneV, item_name |-> "wh", sql_endpoint |-> "ep1"]
Doc_WarehouseNoEndpoint ==
    [mode |-> "warehouse", workspace_id |-> "ws1", workspace_name |-> "Workspace",
     item_id |-> NoneV, item_name |-> "wh", sql_endpoint |-> ""]
Doc_OtherMode ==
    [mode |-> "lakehouse", workspace_id |-> "ws1", workspace_name |-> "Workspace",
     item_id |-> NoneV, item_name |-> NoneV, sql_endpoint |-> NoneV]

\* context.json as save_context writes it for a semantic model
Doc_Named ==
    [mode |-> "semantic", workspace_id |-> "ws1", workspace_name |-> "Workspace",
     item_id |-> "ds1", item_name |-> "Sales Model", sql_endpoint |-> NoneV]

ContextDocs ==
    {NoneR, BadDoc, Doc_Connected, Doc_Semantic, Doc_Warehouse,
     Doc_WarehouseNoEndpoint, Doc_OtherMode}

\* initialize(): auth is what load_config / get_auth_manager / get_token do
\* ("ok", "no_token": get_token returns None, "raise"); doc is context.json
initialize(s, auth, doc) ==
    LET s1 == [s EXCEPT !.token = IF auth = "ok" THEN "tok" ELSE NoneV]
    IN  IF auth = "raise" THEN [ok |-> FALSE, srv |-> s]
        ELSE IF doc = NoneR THEN [ok |-> TRUE, srv |-> s1]
        ELSE IF doc = BadDoc THEN [ok |-> FALSE, srv |-> s1]
        ELSE [ok |-> TRUE,
              srv |-> [s1 EXCEPT
                        !.mode = Get(doc, "mode", "semantic"),
                        !.workspace_id = Get(doc, "workspace_id", NoneV),
                        !.workspace_name = Get(doc, "workspace_name", NoneV),
                        !.dataset_id = Get(doc, "item_id", NoneV),
                        !.dataset_name = Get(doc, "item_name", NoneV),
                        !.sql_endpoint = Get(doc, "sql_endpoint", NoneV),
                        !.database_name = Get(doc, "item_name", NoneV)]]

\* JSON-RPC ids: msg.get("id") is None, an int or a str
IntId(n) == [int |-> n]
\* "if mid:"
Truthy(mid) == mid # NoneR /\ mid # IntId(0) /\ mid # [str |-> ""]

\* str(method) inside the f-string
PyStr(v) == v

Response(mid, result) == [jsonrpc |-> "2.0", id |-> mid, result |-> result]
ErrorResponse(mid, code, message) ==
    [jsonrpc |-> "2.0", id |-> mid, error |-> [code |-> code, message |-> message]]

InitializeResult ==
    [protocolVersion |-> "2024-11-05", capabilities |-> [tools |-> EmptyDict],
     serverInfo |-> [name |-> "fabric", version |-> "1.0"]]

\* json.dumps(result, default=str, ensure_ascii=False): the JSON text of result
JsonDumps(result) == [json |-> result]

\* the text block of a tools/call response
ToolContent(result) == [content |-> <<[type |-> "text", text |-> JsonDumps(result)]>>]

NoCall ==
    [name |-> NoneV, args |-> EmptyDict, before |-> NoneR, result |-> NoneR,
     rest |-> <<>>, sql |-> <<>>, conn_opened |-> FALSE, conn_open |-> FALSE,
     sql_token_requested |-> FALSE, tokenstruct |-> NoneR, conn_attempted |-> FALSE,
     file |-> NoneR]

\* handle_tool(name, args) called on the server s, and its outcome o
CallRecord(name, args, s, o) ==
    [name |-> name, args |-> args, before |-> s, result |-> o.result,
     rest |-> o.rest, sql |-> o.sql, conn_opened |-> o.conn_opened,
     conn_open |-> o.conn_open, sql_token_requested |-> o.sql_token_requested,
     tokenstruct |-> o.tokenstruct, conn_attempted |-> o.conn_attempted,
     file |-> o.file]

\* one pass through the body of "for line in sys.stdin": the lines printed,
\* the number of stderr writes, the server afterwards, the tool call made
\* (NoneR when none) and the context document written (NoneR when none)
Pass(s, out, err) == [srv |-> s, out |-> out, err |-> err, call |-> NoneR, file |-> NoneR]

\* a handler that answers an unparseable line with a JSON-RPC parse error
OnJSONDecodeError_replies(s) ==
    Pass(s, <<ErrorResponse(NoneR, -32700, <<"Parse error">>)>>, 0)

\* "except json.JSONDecodeError: pass"
OnJSONDecodeError(s) == Pass(s, <<>>, 0)

LoopBody(s, tools_cached, line, env) ==
    IF line.kind = "malformed" THEN OnJSONDecodeError(s)
    ELSE IF line.kind = "nonobject" THEN Pass(s, <<>>, 1)    \* msg.get raises
    ELSE
    LET msg == line.msg
        method == Get(msg, "method", NoneV)
        mid == Get(msg, "id", NoneR)
    IN  CASE method = "initialize" ->
                Pass(s, <<Response(mid, InitializeResult)>>, 0)
          [] method = "tools/list" ->
                Pass(s, <<Response(mid, [tools |-> tools_cached])>>, 0)
          [] method = "tools/call" ->
                IF "params" \notin DOMAIN msg THEN Pass(s, <<>>, 1)      \* KeyError
                ELSE IF "name" \notin DOMAIN msg.params THEN Pass(s, <<>>, 1)
                ELSE LET tool_name == msg.params.name
                         tool_args == Get(msg.params, "arguments", EmptyDict)
                         o == handle_tool(s, tool_name, tool_args, env)
                     IN  [srv |-> o.srv,
                          out |-> <<Response(mid, ToolContent(o.result))>>,
                          err |-> 0,
                          call |-> CallRecord(tool_name, tool_args, s, o),
                          file |-> o.file]
          [] method = "notifications/initialized" -> Pass(s, <<>>, 0)
          [] OTHER ->
                IF Truthy(mid)
                    THEN Pass(s, <<ErrorResponse(mid, -32601,
                                    <<"Method not found: ", PyStr(method)>>)>>, 0)
                    ELSE Pass(s, <<>>, 0)

\* input lines
Malformed == [kind |-> "malformed"]
NonObject == [kind |-> "nonobject"]
Object(msg) == [kind |-> "object", msg |-> msg]
Request(mid, method) == Object([jsonrpc |-> "2.0", id |-> mid, method |-> method])
Notification(method) == Object([jsonrpc |-> "2.0", method |-> method])
ToolsCall(mid, name, args) ==
    Object([jsonrpc |-> "2.0", id |-> mid, method |-> "tools/call",
            params |-> [name |-> name, arguments |-> args]])

ProtoLines ==
    { Malformed, NonObject,
      Notification("initialize"), Request(IntId(0), "initialize"),
      Request(IntId(1), "initialize"),
      Notification("tools/list"), Request(IntId(1), "tools/list"),
      Notification("notifications/initialized"),
      Request(IntId(1), "notifications/initialized"),
      Notification("ping"), Request(IntId(0), "ping"), Request(IntId(1), "ping"),
      Object([jsonrpc |-> "2.0", id |-> IntId(1)]),
      Request(IntId(1), "tools/call"),
      Object([jsonrpc |-> "2.0", id |-> IntId(1), method |-> "tools/call",
              params |-> EmptyDict]),
      Object([jsonrpc |-> "2.0", method |-> "tools/call",
              params |-> [name |-> "nope"]]),
      ToolsCall(IntId(1), "nope", EmptyDict),
      ToolsCall(IntId(1), "list_workspaces", EmptyDict),
      ToolsCall(IntId(1), "execute_sql", [dict |-> TRUE, query |-> Sql_Select]),
      ToolsCall(IntId(1), "connect_dataset", [dict |-> TRUE, dataset_id |-> "ds2"]) }

RestTools ==
    {"list_workspaces", "list_datasets", "get_tables", "get_columns",
     "get_measures", "get_relationships", "execute_dax", "get_dataset_info",
     "refresh_dataset"}

\* the environments that can make a difference to a call of the tool
ToolEnvs(s, name) ==
    IF s.mode = "semantic" THEN
        IF name \in RestTools
            THEN {[DefaultEnv EXCEPT !.rest = r] : r \in {"ok", "http_error", "error"}}
        ELSE IF name = "connect_dataset"
            THEN {[DefaultEnv EXCEPT !.file_ok = b] : b \in BOOLEAN}
        ELSE {DefaultEnv}
    ELSE IF s.mode = "warehouse" THEN
        {DefaultEnv, [DefaultEnv EXCEPT !.pyodbc = FALSE],
         [DefaultEnv EXCEPT !.conn_ok = FALSE], [DefaultEnv EXCEPT !.exec_ok = FALSE],
         [DefaultEnv EXCEPT !.sql_token_ok = FALSE]}
        \cup (IF name = "execute_sql"
                THEN {[DefaultEnv EXCEPT !.description = d, !.backend_rows = n] :
                        d \in BOOLEAN, n \in 0..MaxBackendRows}
                ELSE {})
    ELSE {DefaultEnv}

LineEnvs(s, line) ==
    IF /\ line.kind = "object"
       /\ Get(line.msg, "method", NoneV) = "tools/call"
       /\ "params" \in DOMAIN line.msg
       /\ "name" \in DOMAIN line.msg.params
        THEN ToolEnvs(s, line.msg.params.name)
        ELSE {DefaultEnv}

\* run(): initialize(), then get_tools() once
Initialize ==
    /\ run_pc = "new"
    /\ \E auth \in {"ok", "no_token", "raise"} :
        LET r == initialize(srv, auth, context_file)
        IN  /\ srv' = r.srv
            /\ boot' = [auth |-> auth, doc |-> context_file]
            /\ run_pc' = IF r.ok THEN "loop" ELSE "returned"
            /\ tools' = IF r.ok THEN get_tools(r.srv) ELSE tools
    /\ UNCHANGED <<context_file, stdin_read, stdout, stderr, tool_call>>
    /\ UNCHANGED <<cm_vars, ad_vars, ut_vars>>

\* the loop reads one line of ls
ReadLineOf(ls) ==
    /\ run_pc = "loop"
    /\ Len(stdin_read) < MaxLines
    /\ \E line \in ls : \E env \in LineEnvs(srv, line) :
        LET r == LoopBody(srv, tools, line, env)
        IN  /\ srv' = r.srv
            /\ stdout' = stdout \o r.out
            /\ stderr' = stderr + r.err
            /\ stdin_read' = Append(stdin_read, [line |-> line, env |-> env])
            /\ tool_call' = IF r.call = NoneR THEN tool_call ELSE r.call
            /\ context_file' = IF r.file = NoneR THEN context_file ELSE r.file
    /\ UNCHANGED <<run_pc, tools, boot>>
    /\ UNCHANGED <<cm_vars, ad_vars, ut_vars>>

ReadLine == ReadLineOf(ProtoLines)

\* standard input is exhausted: run() returns
EndOfInput ==
    /\ run_pc = "loop"
    /\ run_pc' = "returned"
    /\ UNCHANGED <<srv, context_file, tools, boot, stdin_read, stdout, stderr, tool_call>>
    /\ UNCHANGED <<cm_vars, ad_vars, ut_vars>>

\* the loop reads a tools/call line of ls whose handler sends a request that
\* the endpoint does not answer: requests.get / requests.post are called
\* without a timeout, so the handler stays inside the call
ReadLineStalledOf(ls) ==
    /\ run_pc = "loop"
    /\ Len(stdin_read) < MaxLines
    /\ \E line \in ls :
        LET r == LoopBody(srv, tools, line, DefaultEnv)
        IN  /\ r.call # NoneR
            /\ r.call.rest # <<>>
            /\ stdin_read' = Append(stdin_read,
                                    [line |-> line,
                                     env |-> [DefaultEnv EXCEPT !.rest = "stalled"]])
    /\ run_pc' = "request"
    /\ UNCHANGED <<srv, context_file, tools, boot, stdout, stderr, tool_call>>
    /\ UNCHANGED <<cm_vars, ad_vars, ut_vars>>

\* the endpoint answers the outstanding request after all (or the connection
\* breaks): the handler goes on and the loop prints the response
RequestAnswered ==
    /\ run_pc = "request"
    /\ \E rest \in {"ok", "http_error", "error"} :
        LET line == stdin_read[Len(stdin_read)].line
            env == [DefaultEnv EXCEPT !.rest = rest]
            r == LoopBody(srv, tools, line, env)
        IN  /\ srv' = r.srv
            /\ stdout' = stdout \o r.out
            /\ stderr' = stderr + r.err
            /\ stdin_read' = [stdin_read EXCEPT ![Len(stdin_read)].env = env]
            /\ tool_call' = r.call
            /\ context_file' = IF r.file = NoneR THEN context_file ELSE r.file
    /\ run_pc' = "loop"
    /\ UNCHANGED <<tools, boot>>
    /\ UNCHANGED <<cm_vars, ad_vars, ut_vars>>

\* handle_tool(name, args) called on the initialized server
CallTool(name, args) ==
    /\ run_pc = "loop"
    /\ \E env \in ToolEnvs(srv, name) :
        LET o == handle_tool(srv, name, args, env)
        IN  /\ srv' = o.srv
            /\ tool_call' = CallRecord(name, args, srv, o)
            /\ context_file' = IF o.file = NoneR THEN context_file ELSE o.file
    /\ UNCHANGED <<run_pc, tools, boot, stdin_read, stdout, stderr>>
    /\ UNCHANGED <<cm_vars, ad_vars, ut_vars>>

\* tools/call execute_sql, queries from Q
CallExecuteSqlOn(Q) ==
    \E q \in Q : CallTool("execute_sql", [dict |-> TRUE, query |-> q])

CallExecuteSql ==
    \/ CallExecuteSqlOn(SqlQueries)
    \/ CallTool("execute_sql", EmptyDict)

\* tools/call execute_dax, queries from Q
CallExecuteDaxOn(Q) ==
    \E q \in Q : CallTool("execute_dax", [dict |-> TRUE, query |-> q])

CallExecuteDax ==
    \/ CallExecuteDaxOn(DaxQueries)
    \/ CallTool("execute_dax", EmptyDict)

-----------------------------------------------------------------------------
(* TMSL generator (src/src/utils/tmsl_generator.py) and the measure        *)
(* operations of SemanticModelAdapter and XMLAClient                       *)

\* the database field every generator writes
Placeholder == "<database>"

\* generate_measure_upsert(name, formula, table, description, format_string,
\* display_folder): the JSON text of the command
generate_measure_upsert(name, formula, table, description, format_string, display_folder) ==
    LET d0 == [name |-> name, expression |-> formula]
        d1 == IF Falsy(description) THEN d0 ELSE d0 @@ [description |-> description]
        d2 == IF Falsy(format_string) THEN d1 ELSE d1 @@ [formatString |-> format_string]
        measure_def == IF Falsy(display_folder) THEN d2
                       ELSE d2 @@ [displayFolder |-> display_folder]
    IN  IF ~Falsy(table)
            THEN JsonDumps([createOrReplace |->
                    [object |-> [database |-> Placeholder, table |-> table,
                                 measure |-> name],
                     measure |-> measure_def]])
            ELSE JsonDumps([alter |->
                    [object |-> [database |-> Placeholder, measure |-> name],
                     measure |-> measure_def]])

\* generate_measure_delete(name, table)
generate_measure_delete(name, table) ==
    LET delete_obj == [database |-> Placeholder, measure |-> name]
    IN  JsonDumps([delete |->
            [object |-> IF Falsy(table) THEN delete_obj
                        ELSE delete_obj @@ [table |-> table]]])

\* payload.replace(old, new) on the JSON text of a command: each string of
\* the command that is old becomes new
PayloadReplace(payload, old, new) ==
    LET leafs(d) == [k \in DOMAIN d |-> IF d[k] = old THEN new ELSE d[k]]
        parts(c) == [k \in DOMAIN c |-> leafs(c[k])]
    IN  [json |-> [k \in DOMAIN payload.json |-> parts(payload.json[k])]]

Str_success == <<"s", "u", "c", "c", "e", "s", "s">>
Str_error == <<"e", "r", "r", "o", "r">>

\* pieces of response bodies
Body_Success == <<"S", "u", "c", "c", "e", "s", "s">>
Body_ERROR == <<"E", "R", "R", "O", "R">>
Body_suc == <<"s", "u", "c">>
Body_cess == <<"c", "e", "s", "s">>
Body_Ok == <<"<", "o", "k", "/", ">">>

BodyWords == {Body_Success, Body_ERROR, Body_suc, Body_cess, Body_Ok}

RECURSIVE Flatten(_)
Flatten(ws) == IF ws = <<>> THEN <<>> ELSE Head(ws) \o Flatten(Tail(ws))

\* the response bodies: up to MaxBodyWords pieces in a row
TmslBodies == {Flatten(ws) : ws \in SeqsUpTo(BodyWords, MaxBodyWords)}

\* "Parse response for success/failure" of execute_tmsl
ParseTmslResponse(text) ==
    IF Contains(Lower(text), Str_success)
        THEN [status |-> "success", message |-> "TMSL command executed successfully"]
    ELSE IF Contains(Lower(text), Str_error)
        THEN [status |-> "error", message |-> "TMSL command failed", details |-> text]
    ELSE [status |-> "unknown", raw_response |-> text]

\* what execute_tmsl returns for each response body
TmslReply == [text \in TmslBodies |-> ParseTmslResponse(text)]

\* what the credential provider and the XMLA endpoint do during execute_tmsl:
\* the endpoint answers with a body, there is no token, or the post fails
TmslEnvsOf(B) ==
    {[token_ok |-> TRUE, http_ok |-> TRUE, body |-> b] : b \in B}
    \cup {[token_ok |-> FALSE, http_ok |-> TRUE, body |-> <<>>],
          [token_ok |-> TRUE, http_ok |-> FALSE, body |-> <<>>]}

\* the reply mentions success, mentions error, or neither
TmslEnvs == TmslEnvsOf({Body_Success, Body_ERROR, Body_Ok})

\* XMLAClient.execute_tmsl(tmsl_json): headers, post, raise_for_status, parse
XmlaExecuteTmslOp(tmsl_json, env) ==
    LET x == [raised |-> FALSE, error |-> NoExc, sent |-> <<>>, result |-> NoneR]
    IN  IF ~env.token_ok
            THEN [x EXCEPT !.raised = TRUE,
                           !.error = Exc("RuntimeError", Msg_NotAuthenticated)]
        ELSE IF ~env.http_ok
            THEN [x EXCEPT !.raised = TRUE, !.error = Exc("HTTPError", Msg_Backend),
                           !.sent = <<tmsl_json>>]
        ELSE [x EXCEPT !.sent = <<tmsl_json>>,
                       !.result = TmslReply[env.body]]

\* XMLAClient.execute_tmsl(tmsl_json) on a client for the model m1
XmlaExecuteTmsl ==
    \E tmsl_json \in {generate_measure_upsert("Total", "SUM(x)", "Sales", NoneV, NoneV, NoneV),
                       generate_measure_upsert("Total", "SUM(x)", NoneV, "total", NoneV, NoneV),
                       generate_measure_delete("Total", "Sales"),
                       generate_measure_delete("Total", NoneV)},
       env \in TmslEnvsOf(TmslBodies) :
        /\ xmla_call' = [op |-> "execute_tmsl", body |-> env.body]
                            @@ XmlaExecuteTmslOp(PayloadReplace(tmsl_json, Placeholder, "m1"), env)
        /\ UNCHANGED <<cm_vars, wa, wa_call, sa, sa_call, srv_vars, ut_vars>>

\* an apply step that sends the command in a dry run as well
SaApplyTmsl_sends_preview(a, operation, name, tmsl_payload, dry_run, env) ==
    LET result == [operation |-> operation, measure_name |-> name,
                   dry_run |-> dry_run, tmsl |-> tmsl_payload]
        final_tmsl == PayloadReplace(tmsl_payload, Placeholder,
                                     Or(a._connected_model_name, a._connected_model_id))
    IN  [op |-> operation, dry_run |-> dry_run, raised |-> FALSE, error |-> NoExc,
         sent |-> XmlaExecuteTmslOp(final_tmsl, env).sent, execution_result |-> NoneR,
         result |-> result @@ [status |-> "preview",
                               message |-> "Dry run - no changes made. Set dry_run=False to apply."]]

\* the part upsert_measure and delete_measure share: the connected check,
\* the result dict, the preview, and the execution through a new XMLAClient
SaApplyTmsl(a, operation, name, tmsl_payload, dry_run, env) ==
    LET result == [operation |-> operation, measure_name |-> name,
                   dry_run |-> dry_run, tmsl |-> tmsl_payload]
        call == [op |-> operation, dry_run |-> dry_run, raised |-> FALSE,
                 error |-> NoExc, sent |-> <<>>, execution_result |-> NoneR,
                 result |-> NoneR]
        failed(message) == result @@ [status |-> "error", message |-> message]
    IN  IF Falsy(a._connected_model_id)
            THEN [call EXCEPT !.raised = TRUE,
                              !.error = Exc("RuntimeError", Msg_NotConnected)]
        ELSE IF dry_run
            THEN [call EXCEPT !.result =
                    result @@ [status |-> "preview",
                               message |-> "Dry run - no changes made. Set dry_run=False to apply."]]
        ELSE IF a._xmla_endpoint = NoneV
            \* XMLAClient(None, ...) fails in _normalize_endpoint
            THEN [call EXCEPT !.result = failed(Msg_Backend)]
        ELSE
        LET db_name == Or(a._connected_model_name, a._connected_model_id)
            final_tmsl == PayloadReplace(tmsl_payload, Placeholder, db_name)
            x == XmlaExecuteTmslOp(final_tmsl, env)
        IN  IF x.raised
                THEN [call EXCEPT !.sent = x.sent, !.result = failed(x.error.message)]
            ELSE IF "message" \notin DOMAIN x.result
                \* execution_result["message"] raises KeyError
                THEN [call EXCEPT !.sent = x.sent, !.execution_result = x.result,
                                  !.result = failed(<<"'message'">>)]
            ELSE [call EXCEPT !.sent = x.sent, !.execution_result = x.result,
                              !.result =
                                 result @@ [k \in DOMAIN x.result |-> x.result[k]]]

\* the texts of validate_dax_expression
Msg_FormulaEmpty == <<"F", "o", "r", "m", "u", "l", "a", " ", "c", "a", "n", "n", "o", "t", " ", "b", "e", " ", "e", "m", "p", "t", "y">>
Msg_UnbalancedParentheses == <<"U", "n", "b", "a", "l", "a", "n", "c", "e", "d", " ", "p", "a", "r", "e", "n", "t", "h", "e", "s", "e", "s", ":", " ">>
Msg_UnbalancedBrackets == <<"U", "n", "b", "a", "l", "a", "n", "c", "e", "d", " ", "b", "r", "a", "c", "k", "e", "t", "s", ":", " ">>
Msg_Opening == <<" ", "o", "p", "e", "n", "i", "n", "g", ",", " ">>
Msg_Closing == <<" ", "c", "l", "o", "s", "i", "n", "g">>
Msg_TrailingComma == <<"F", "o", "r", "m", "u", "l", "a", " ", "e", "n", "d", "s", " ", "w", "i", "t", "h", " ", "t", "r", "a", "i", "l", "i", "n", "g", " ", "c", "o", "m", "m", "a">>
Msg_UnclosedCall == <<"F", "o", "r", "m", "u", "l", "a", " ", "e", "n", "d", "s", " ", "w", "i", "t", "h", " ", "u", "n", "c", "l", "o", "s", "e", "d", " ", "f", "u", "n", "c", "t", "i", "o", "n", " ", "c", "a", "l", "l">>
Msg_ValidationPassed == <<"B", "a", "s", "i", "c", " ", "v", "a", "l", "i", "d", "a", "t", "i", "o", "n", " ", "p", "a", "s", "s", "e", "d">>

\* a validation that compares the two kinds of bracket with each other
validate_dax_expression_mixed(formula0) ==
    LET formula == Strip(formula0)
        counts(a, b) == NatStr(Count(formula, a)) \o Msg_Opening
                            \o NatStr(Count(formula, b)) \o Msg_Closing
    IN  IF formula = <<>> THEN <<FALSE, Msg_FormulaEmpty>>
        ELSE IF Count(formula, "(") + Count(formula, "[")
                    # Count(formula, ")") + Count(formula, "]")
            THEN <<FALSE, Msg_UnbalancedParentheses \o counts("(", ")")>>
        ELSE IF EndsWith(formula, ",") THEN <<FALSE, Msg_TrailingComma>>
        ELSE IF EndsWith(formula, "(") THEN <<FALSE, Msg_UnclosedCall>>
        ELSE <<TRUE, Msg_ValidationPassed>>

\* validate_dax_expression(formula): the tuple (is_valid, error_message)
validate_dax_expression(formula0) ==
    LET formula == Strip(formula0)
        counts(a, b) == NatStr(Count(formula, a)) \o Msg_Opening
                            \o NatStr(Count(formula, b)) \o Msg_Closing
    IN  IF formula = <<>> THEN <<FALSE, Msg_FormulaEmpty>>
        ELSE IF Count(formula, "(") # Count(formula, ")")
            THEN <<FALSE, Msg_UnbalancedParentheses \o counts("(", ")")>>
        ELSE IF Count(formula, "[") # Count(formula, "]")
            THEN <<FALSE, Msg_UnbalancedBrackets \o counts("[", "]")>>
        ELSE IF EndsWith(formula, ",") THEN <<FALSE, Msg_TrailingComma>>
        ELSE IF EndsWith(formula, "(") THEN <<FALSE, Msg_UnclosedCall>>
        ELSE <<TRUE, Msg_ValidationPassed>>

\* formulas: those of the tests, and every short one over the characters the
\* validation looks at
Formula_Sum == <<"S", "U", "M", "(", "S", "a", "l", "e", "s", "[", "A", "m", "o", "u", "n", "t", "]", ")">>
Formula_SumOpen == <<"S", "U", "M", "(", "S", "a", "l", "e", "s", "[", "A", "m", "o", "u", "n", "t", "]">>
Formula_Total == <<"[", "T", "o", "t", "a", "l", " ", "S", "a", "l", "e", "s", "]">>
Formula_TotalOpen == <<"[", "T", "o", "t", "a", "l", " ", "S", "a", "l", "e", "s">>
Formula_Blank == <<" ", " ", " ">>
Formula_Padded == <<" ", "S", "U", "M", "(", "x", ")", " ">>
Formula_CommaPadded == <<"S", "U", "M", "(", "x", ")", ",", " ">>
FormulaChars == {"(", ")", "[", "]", ",", "x"}
Formulas ==
    {Formula_Sum, Formula_SumOpen, Formula_Total, Formula_TotalOpen, Formula_Blank,
     Formula_Padded, Formula_CommaPadded}
    \cup SeqsUpTo(FormulaChars, MaxFormulaLen)

\* what validate_dax_expression returns for each formula
DaxExpressionVerdict == [formula \in Formulas |-> validate_dax_expression(formula)]

\* validate_dax_expression(formula), formula from Formulas
ValidateDaxExpression ==
    \E formula \in Formulas :
        /\ util_call' = [op |-> "validate_dax_expression", formula |-> formula,
                         valid |-> DaxExpressionVerdict[formula][1],
                         message |-> DaxExpressionVerdict[formula][2]]
        /\ UNCHANGED <<cm_vars, ad_vars, srv_vars>>

MeasureNames == {"Total", Placeholder}

\* SemanticModelAdapter.upsert_measure(name, formula, table, description,
\* format_string, dry_run)
SaUpsertMeasure ==
    \E name \in MeasureNames, table \in {NoneV, "Sales"},
       description \in {NoneV, "total"}, format_string \in {NoneV, "0.00"},
       dry_run \in BOOLEAN, env \in TmslEnvs :
        /\ sa_call' = SaApplyTmsl(sa, "upsert_measure", name,
                        generate_measure_upsert(name, "SUM(x)", table, description,
                                                format_string, NoneV),
                        dry_run, env)
                       @@ [formula |-> "SUM(x)", table |-> table]
        /\ UNCHANGED <<cm_vars, wa, wa_call, sa, xmla_call, srv_vars, ut_vars>>

\* SemanticModelAdapter.delete_measure(name, dry_run)
SaDeleteMeasure ==
    \E name \in MeasureNames, dry_run \in BOOLEAN, env \in TmslEnvs :
        /\ sa_call' = SaApplyTmsl(sa, "delete_measure", name,
                        generate_measure_delete(name, NoneV), dry_run, env)
        /\ UNCHANGED <<cm_vars, wa, wa_call, sa, xmla_call, srv_vars, ut_vars>>

\* arguments of the semantic tools: complete, with a required one missing or
\* empty, and with the optional ones
MeasureArgs ==
    {EmptyDict,
     [dict |-> TRUE, table_name |-> "Sales", name |-> "Total", expression |-> "SUM(x)"],
     [dict |-> TRUE, table_name |-> "Sales", name |-> "Total", expression |-> "SUM(x)",
      description |-> "total", execute |-> FALSE],
     [dict |-> TRUE, table_name |-> "Sales", name |-> "Total"],
     [dict |-> TRUE, table_name |-> "Sales", name |-> "", expression |-> "SUM(x)"],
     [dict |-> TRUE, name |-> "Total", expression |-> "SUM(x)"]}

DeleteArgs ==
    {EmptyDict,
     [dict |-> TRUE, table_name |-> "Sales", name |-> "Total"],
     [dict |-> TRUE, table_name |-> "Sales", name |-> "Total", execute |-> FALSE],
     [dict |-> TRUE, table_name |-> "Sales"],
     [dict |-> TRUE, table_name |-> "", name |-> "Total"]}

RelationshipArgs ==
    {EmptyDict,
     [dict |-> TRUE, from_table |-> "Sales", from_column |-> "k",
      to_table |-> "Date", to_column |-> "k"],
     [dict |-> TRUE, from_table |-> "Sales", from_column |-> "k",
      to_table |-> "Date", to_column |-> "k", is_active |-> FALSE, execute |-> FALSE],
     [dict |-> TRUE, from_table |-> "Sales", from_column |-> "k", to_table |-> "Date"],
     [dict |-> TRUE, from_table |-> "Sales", from_column |-> "k",
      to_table |-> "Date", to_column |-> ""]}

ToolArgs(name) ==
    CASE name = "list_datasets" -> {EmptyDict, [dict |-> TRUE, workspace_id |-> "ws2"]}
      [] name = "connect_dataset" ->
            {EmptyDict, [dict |-> TRUE, dataset_id |-> "ds2"],
             [dict |-> TRUE, workspace_id |-> "ws2"],
             [dict |-> TRUE, workspace_id |-> "ws2", dataset_id |-> "ds2"]}
      [] name = "execute_dax" -> {EmptyDict, [dict |-> TRUE, query |-> Dax_Evaluate]}
      [] name = "get_columns" -> {EmptyDict, [dict |-> TRUE, table_name |-> "Sales"]}
      [] name = "create_measure" -> MeasureArgs
      [] name = "delete_measure" -> DeleteArgs
      [] name = "create_relationship" -> RelationshipArgs
      [] OTHER -> {EmptyDict}

\* tools/call of a tool of the semantic catalog
CallSemanticTool ==
    \E name \in Range(SemanticTools) : \E args \in ToolArgs(name) : CallTool(name, args)

-----------------------------------------------------------------------------
(* Specifications *)

ServerIdle ==
    /\ srv = ServerInit
    /\ tools = <<>>
    /\ boot = NoneR
    /\ run_pc = "new"
    /\ stdin_read = <<>>
    /\ stdout = <<>>
    /\ stderr = 0
    /\ tool_call = NoCall

AdaptersIdle ==
    /\ wa = WarehouseAdapterInit
    /\ wa_call = [op |-> "__init__"]
    /\ sa = SemanticAdapterInit
    /\ sa_call = [op |-> "__init__"]
    /\ xmla_call = [op |-> "__init__"]
    /\ util_call = [op |-> "__init__"]

\* the ContextManager on its own
InitCtx ==
    /\ \E mt \in LimitValues(DefaultMaxTablesInContext),
          mc \in LimitValues(DefaultMaxColumnsPerTable) : CMInit(mt, mc)
    /\ AdaptersIdle
    /\ ServerIdle
    /\ context_file = NoneR

NextCtx ==
    \/ SetSemanticModel
    \/ SetWarehouse
    \/ UpdateSemanticSchema
    \/ UpdateWarehouseOverview
    \/ Clear

SpecCtx == InitCtx /\ [][NextCtx]_vars

\* the server process: initialize(), then the stdio loop
InitServer ==
    /\ ServerIdle
    /\ context_file \in ContextDocs
    /\ CMInit(DefaultMaxTablesInContext, DefaultMaxColumnsPerTable)
    /\ AdaptersIdle

NextServer == Initialize \/ ReadLine \/ EndOfInput

SpecServer == InitServer /\ [][NextServer]_vars

\* the server process talking to an endpoint that may leave a request
\* unanswered.  The loop itself always takes its next step; nothing obliges
\* the endpoint to answer
StallLines ==
    { Malformed, Request(IntId(1), "tools/list"),
      ToolsCall(IntId(1), "list_workspaces", EmptyDict),
      ToolsCall(IntId(1), "execute_sql", [dict |-> TRUE, query |-> Sql_Select]) }

NextStall ==
    \/ Initialize
    \/ ReadLineOf(StallLines)
    \/ ReadLineStalledOf(StallLines)
    \/ RequestAnswered
    \/ EndOfInput

SpecStall ==
    /\ InitServer
    /\ [][NextStall]_vars
    /\ WF_vars(Initialize)
    /\ WF_vars(ReadLineOf(StallLines) \/ EndOfInput)

\* the tool dispatcher called on the initialized server
NextTools == Initialize \/ CallExecuteSql \/ CallExecuteDax

SpecTools == InitServer /\ [][NextTools]_vars

InitAdapters ==
    /\ CMInit(DefaultMaxTablesInContext, DefaultMaxColumnsPerTable)
    /\ AdaptersIdle
    /\ ServerIdle
    /\ context_file = NoneR

\* the WarehouseAdapter with the global context
NextWarehouse == WaConnect \/ WaExecuteSql \/ WaClose

SpecWarehouse == InitAdapters /\ [][NextWarehouse]_vars

\* the SemanticModelAdapter with the global context
NextSemantic == SetSemanticModel \/ Clear \/ SaConnect \/ SaExecuteDax

SpecSemantic == InitAdapters /\ [][NextSemantic]_vars

\* the two SQL-executing paths side by side: a server started on the context
\* document of a warehouse, and a WarehouseAdapter whose warehouse answers
InitSql ==
    /\ InitServer
    /\ context_file = Doc_Warehouse

NextSql ==
    \/ Initialize
    \/ CallExecuteSqlOn(SqlQueries)
    \/ WaConnectOn({"ep1"}, {NoneV}, {WaEnvOk})
    \/ WaExecuteSqlOn(SqlQueries, {NoInt}, {WaEnvOk})

SpecSql == InitSql /\ [][NextSql]_vars

\* the two places that open warehouse connections, under every outcome of
\* the credential provider and the driver
NextConnections ==
    \/ Initialize
    \/ CallExecuteSqlOn({Sql_Select})
    \/ WaConnectOn({"ep1"}, {NoneV}, WaEnvs)
    \/ WaExecuteSqlOn({Sql_Select}, {NoInt}, WaEnvs)
    \/ WaClose

SpecConnections == InitSql /\ [][NextConnections]_vars

\* the tools of the semantic catalog called on the initialized server
NextSemanticTools == Initialize \/ CallSemanticTool

SpecSemanticTools == InitServer /\ [][NextSemanticTools]_vars

\* the measure operations of the SemanticModelAdapter with the global context
NextMeasures == SetSemanticModel \/ SaConnect \/ SaUpsertMeasure \/ SaDeleteMeasure

SpecMeasures == InitAdapters /\ [][NextMeasures]_vars

\* every place that writes a TMSL command: the generators behind the measure
\* operations of the adapter, after set_semantic_model and connect("m1"), and
\* create_relationship of the dispatcher
CallCreateRelationship ==
    \E args \in RelationshipArgs : CallTool("create_relationship", args)

InitTmsl ==
    /\ limits = DefaultLimits
    /\ mode = SEMANTIC_MODEL
    /\ warehouse_context = NoneR
    /\ semantic_context = SemanticModelContext("ws1", "Workspace", "m1", "Model")
    /\ cm_call = [op |-> "set_semantic_model", raised |-> FALSE,
                  prior |-> [mode |-> NONE, schema_loaded |-> FALSE,
                             overview_stored |-> FALSE]]
    /\ wa = WarehouseAdapterInit
    /\ wa_call = [op |-> "__init__"]
    /\ sa = SaConnectOp(SemanticAdapterInit, semantic_context, "m1", "found")
    /\ sa_call = [op |-> "connect", query |-> <<>>, max_rows |-> NoInt,
                  raised |-> FALSE, error |-> NoExc, sent |-> <<>>, rows |-> 0]
    /\ xmla_call = [op |-> "__init__"]
    /\ util_call = [op |-> "__init__"]
    /\ ServerIdle
    /\ context_file \in {NoneR, Doc_Connected}

NextTmsl ==
    Initialize \/ CallCreateRelationship \/ SaUpsertMeasure \/ SaDeleteMeasure

SpecTmsl == InitTmsl /\ [][NextTmsl]_vars

\* the row-returning operations of both adapters and of the XMLA client under
\* a config.yaml whose row limits are 1, the adapters set up by
\* set_semantic_model, connect("m1") and connect("ep1"); the backends hold up
\* to MaxBackendRows rows and the callers ask for nothing, for 1 or for
\* MaxBackendRows rows
RowLimits ==
    [DefaultLimits EXCEPT !.max_dax_rows = 1, !.sample_rows = 1,
                          !.max_sql_result_rows = 1]

RowRequests == {NoInt, Some(1), Some(MaxBackendRows)}

\* the warehouse answers with some rows, or the statement fails
RowEnvs ==
    {[WaEnvOk EXCEPT !.backend_rows = n] : n \in 0..MaxBackendRows}
    \cup {[WaEnvOk EXCEPT !.exec_ok = FALSE]}

InitRows ==
    /\ limits = RowLimits
    /\ mode = DATA_WAREHOUSE
    /\ semantic_context = NoneR
    /\ warehouse_context = WarehouseContext("ep1", NoneV)
    /\ cm_call = [op |-> "set_warehouse", raised |-> FALSE,
                  prior |-> [mode |-> SEMANTIC_MODEL, schema_loaded |-> FALSE,
                             overview_stored |-> FALSE]]
    /\ wa = WaConnectOp(WarehouseAdapterInit, "ep1", NoneV, WaEnvOk).adapter
    /\ wa_call = WaConnectOp(WarehouseAdapterInit, "ep1", NoneV, WaEnvOk).call
    /\ sa = SaConnectOp(SemanticAdapterInit,
                        SemanticModelContext("ws1", "Workspace", "m1", "Model"),
                        "m1", "found")
    /\ sa_call = [op |-> "connect", query |-> <<>>, max_rows |-> NoInt,
                  raised |-> FALSE, error |-> NoExc, sent |-> <<>>, rows |-> 0]
    /\ xmla_call = [op |-> "__init__"]
    /\ util_call = [op |-> "__init__"]
    /\ ServerIdle
    /\ context_file = NoneR

NextRows ==
    \/ WaExecuteSqlOn({Sql_Select}, RowRequests, RowEnvs)
    \/ WaSampleRowsOn({<<"s", ".", "t">>, <<"t">>}, RowRequests, RowEnvs)
    \/ SaExecuteDaxOn({Dax_Evaluate, Dax_EvaluateTopn}, RowRequests, XmlaEnvs)

SpecRows == InitRows /\ [][NextRows]_vars

\* the operations of the SemanticModelAdapter that need a connected model,
\* before and after connect; connect is also called with an empty model id
NextNotConnected ==
    \/ SetSemanticModel
    \/ SaConnectOn({"m1", ""})
    \/ SaExecuteDaxOn({Dax_Evaluate, Dax_Select}, {NoInt}, XmlaEnvs)
    \/ SaGetSchema
    \/ SaUpsertMeasure
    \/ SaDeleteMeasure

SpecNotConnected == InitAdapters /\ [][NextNotConnected]_vars

\* the two operations that take a schema.table argument, on an adapter that
\* may or may not be connected
TableArgs == SeqsUpTo({"s", "."}, MaxTableLen)

NextTables ==
    \/ WaConnectOn({"ep1"}, {NoneV}, {WaEnvOk})
    \/ WaSampleRowsOn(TableArgs, {NoInt}, RowEnvs)
    \/ WaProfileTableOn(TableArgs, RowEnvs)
    \/ WaClose

SpecTables == InitAdapters /\ [][NextTables]_vars

\* a server started on the document of an earlier connection, on which
\* datasets are connected and commands generated
InitDataset ==
    /\ ServerIdle
    /\ context_file \in {Doc_Connected, Doc_Named}
    /\ CMInit(DefaultMaxTablesInContext, DefaultMaxColumnsPerTable)
    /\ AdaptersIdle

CallConnectDataset ==
    \E args \in ToolArgs("connect_dataset") : CallTool("connect_dataset", args)

CallWriteTool ==
    \E name \in {"create_measure", "delete_measure", "create_relationship"} :
        \E args \in ToolArgs(name) : CallTool(name, args)

NextDataset == Initialize \/ CallConnectDataset \/ CallWriteTool

SpecDataset == InitDataset /\ [][NextDataset]_vars

\* tools/call of a tool that tools/list advertises in the server's mode
CallListedTool ==
    \E name \in Range(get_tools(srv)) : \E args \in ToolArgs(name) : CallTool(name, args)

NextListed == Initialize \/ CallListedTool

SpecListed == InitServer /\ [][NextListed]_vars

\* XMLAClient.execute_tmsl on its own
NextXmlaTmsl == XmlaExecuteTmsl

SpecXmlaTmsl == InitAdapters /\ [][NextXmlaTmsl]_vars

\* validate_dax_expression applied to the formulas
NextValidate == ValidateDaxExpression

SpecValidate == InitAdapters /\ [][NextValidate]_vars

\* the three execute-DAX call sites side by side, each where it can take a
\* query: the server after initialize() loaded Doc_Connected, the adapter
\* after set_semantic_model and connect("m1"), and an XMLA client whose
\* endpoint answers
PolicyQueries ==
    {Dax_Evaluate, Dax_LowerEvaluate, Dax_Sum, Dax_Select, Dax_TopnOnly, Dax_Empty}

AnsweringEnv == [token_ok |-> TRUE, http_ok |-> TRUE, backend_rows |-> 0]

InitDax ==
    /\ limits = DefaultLimits
    /\ mode = SEMANTIC_MODEL
    /\ warehouse_context = NoneR
    /\ semantic_context = SemanticModelContext("ws1", "Workspace", "m1", "Model")
    /\ cm_call = [op |-> "set_semantic_model", raised |-> FALSE,
                  prior |-> [mode |-> NONE, schema_loaded |-> FALSE,
                             overview_stored |-> FALSE]]
    /\ wa = WarehouseAdapterInit
    /\ wa_call = [op |-> "__init__"]
    /\ sa = SaConnectOp(SemanticAdapterInit, semantic_context, "m1", "found")
    /\ sa_call = [op |-> "connect", query |-> <<>>, max_rows |-> NoInt,
                  raised |-> FALSE, error |-> NoExc, sent |-> <<>>, rows |-> 0]
    /\ xmla_call = [op |-> "__init__"]
    /\ util_call = [op |-> "__init__"]
    /\ context_file = Doc_Connected
    /\ boot = [auth |-> "ok", doc |-> Doc_Connected]
    /\ srv = initialize(ServerInit, "ok", Doc_Connected).srv
    /\ tools = get_tools(srv)
    /\ run_pc = "loop"
    /\ stdin_read = <<>>
    /\ stdout = <<>>
    /\ stderr = 0
    /\ tool_call = NoCall

NextDax ==
    \/ CallExecuteDaxOn(PolicyQueries)
    \/ SaExecuteDaxOn(PolicyQueries, {NoInt}, {AnsweringEnv})
    \/ XmlaExecuteDaxOn(PolicyQueries, {DefaultMaxDaxRows}, {AnsweringEnv})

SpecDax == InitDax /\ [][NextDax]_vars

-----------------------------------------------------------------------------
(* Properties of the ContextManager *)

IsPrefixOf(a, b) == Len(a) <= Len(b) /\ a = SubSeq(b, 1, Len(a))

\* C5: after any sequence of ContextManager operations at most one of
\* semantic_context and warehouse_context is non-null; set_warehouse leaves
\* semantic_context null and set_semantic_model leaves warehouse_context null.
C5_MutualExclusion ==
    /\ ~(semantic_context # NoneR /\ warehouse_context # NoneR)
    /\ cm_call.op = "set_warehouse" =>
            semantic_context = NoneR /\ warehouse_context # NoneR
    /\ cm_call.op = "set_semantic_model" =>
            warehouse_context = NoneR /\ semantic_context # NoneR

\* a warehouse context installed by set_warehouse, the semantic one gone
C5_Witness ==
    /\ cm_call.op = "set_warehouse"
    /\ mode = DATA_WAREHOUSE
    /\ semantic_context = NoneR
    /\ warehouse_context # NoneR

\* C9: update_semantic_schema with n tables and limit m stores exactly the
\* first min(n, m) tables in their original order, for each stored table the
\* first min(k, maxColumnsPerTable) of its k columns in order, and sets
\* schema_loaded.
C9_SchemaTruncation ==
    (cm_call.op = "update_semantic_schema" /\ ~cm_call.raised) =>
        LET given  == cm_call.tables
            stored == semantic_context.tables
            m      == limits.max_tables_in_context
            c      == limits.max_columns_per_table
        IN  /\ Len(stored) = Min(Len(given), m)
            /\ \A i \in 1..Len(stored) :
                /\ stored[i].name = given[i].name
                /\ ("columns" \in DOMAIN stored[i]) <=> ("columns" \in DOMAIN given[i])
                /\ "columns" \in DOMAIN stored[i] =>
                    /\ Len(stored[i].columns) = Min(Len(given[i].columns), c)
                    /\ IsPrefixOf(stored[i].columns, given[i].columns)
            /\ semantic_context.schema_loaded = TRUE

\* 80 tables under the limit 50: exactly 50 are stored, their columns cut to 2
C9_Witness ==
    /\ cm_call.op = "update_semantic_schema"
    /\ ~cm_call.raised
    /\ Len(cm_call.tables) = 80
    /\ limits.max_tables_in_context = DefaultMaxTablesInContext
    /\ limits.max_columns_per_table = 2
    /\ Len(semantic_context.tables) = 50
    /\ semantic_context.tables[50].name = 50
    /\ Len(semantic_context.tables[50].columns) = 2

\* C10: update_semantic_schema without a semantic context, and
\* update_warehouse_overview without a warehouse context, raise and leave the
\* mode and both contexts as they were; a successful update_warehouse_overview
\* stores at most maxTablesInContext tables.
C10_UpdateWithoutContext ==
    [][ /\ (cm_call'.op = "update_semantic_schema" /\ semantic_context = NoneR) =>
                /\ cm_call'.raised
                /\ UNCHANGED <<mode, semantic_context, warehouse_context>>
        /\ (cm_call'.op = "update_warehouse_overview" /\ warehouse_context = NoneR) =>
                /\ cm_call'.raised
                /\ UNCHANGED <<mode, semantic_context, warehouse_context>>
        /\ (cm_call'.op = "update_warehouse_overview" /\ ~cm_call'.raised) =>
                /\ warehouse_context' # NoneR
                /\ Len(warehouse_context'.tables_overview)
                        <= limits.max_tables_in_context
                /\ IsPrefixOf(warehouse_context'.tables_overview, cm_call'.tables)
      ]_vars

\* update_warehouse_overview has just failed in semantic mode, the semantic
\* context still in place
C10_Witness ==
    /\ cm_call.op = "update_warehouse_overview"
    /\ cm_call.raised
    /\ mode = SEMANTIC_MODEL
    /\ semantic_context # NoneR
    /\ warehouse_context = NoneR

\* C11: set_semantic_model from any prior state, also one whose schema was
\* loaded, sets mode to SEMANTIC_MODEL, discards the warehouse context and
\* installs a fresh semantic context (schema_loaded false, no tables,
\* measures or relationships); set_warehouse is symmetric (fresh warehouse
\* context, no schemas, no overview): a switch is always a full swap.
C11_FullContextSwap ==
    /\ cm_call.op = "set_semantic_model" =>
            /\ mode = SEMANTIC_MODEL
            /\ warehouse_context = NoneR
            /\ semantic_context # NoneR
            /\ semantic_context.schema_loaded = FALSE
            /\ semantic_context.tables = <<>>
            /\ semantic_context.measures = <<>>
            /\ semantic_context.relationships = <<>>
    /\ cm_call.op = "set_warehouse" =>
            /\ mode = DATA_WAREHOUSE
            /\ semantic_context = NoneR
            /\ warehouse_context # NoneR
            /\ warehouse_context.schemas = <<>>
            /\ warehouse_context.tables_overview = <<>>

\* set_semantic_model called on a semantic context whose schema was loaded:
\* the new context is empty
C11_Witness ==
    /\ cm_call.op = "set_semantic_model"
    /\ cm_call.prior.mode = SEMANTIC_MODEL
    /\ cm_call.prior.schema_loaded
    /\ semantic_context = SemanticModelContext("ws1", "Workspace", "m1", "Model")

\* C12: clear() from any reachable state yields mode NONE with both contexts
\* null, leaves the limits untouched and is idempotent; after clear(),
\* update_semantic_schema and update_warehouse_overview fail until a set
\* operation is performed.
C12_Clear ==
    [][ LET cleared == mode = NONE /\ semantic_context = NoneR
                                   /\ warehouse_context = NoneR
        IN  /\ cm_call'.op = "clear" =>
                /\ mode' = NONE
                /\ semantic_context' = NoneR
                /\ warehouse_context' = NoneR
                /\ limits' = limits
            /\ (cleared /\ cm_call'.op = "clear") =>
                UNCHANGED <<limits, mode, semantic_context, warehouse_context>>
            /\ (cleared /\ cm_call'.op \in {"update_semantic_schema",
                                             "update_warehouse_overview"}) =>
                /\ cm_call'.raised
                /\ UNCHANGED <<limits, mode, semantic_context, warehouse_context>>
      ]_vars

\* clear() called on a semantic context with a loaded schema
C12_Witness ==
    /\ cm_call.op = "clear"
    /\ cm_call.prior.schema_loaded
    /\ mode = NONE
    /\ semantic_context = NoneR
    /\ warehouse_context = NoneR

-----------------------------------------------------------------------------
(* Properties of the stdio loop *)

\* the step reads one more line of standard input
ReadsALine == Len(stdin_read') = Len(stdin_read) + 1

\* the line that step read, and what the step wrote to standard output
LineRead == Last(stdin_read').line
Printed == SliceFrom(stdout', Len(stdout))

KnownMethods == {"initialize", "tools/list", "tools/call", "notifications/initialized"}

\* C1: every input line that is a JSON-RPC request (it carries an id),
\* whatever its method and params, gets exactly one response object carrying
\* that id on standard output; a notification (a method without an id),
\* whatever its method, gets nothing.
C1_OneResponsePerRequest ==
    [][ (ReadsALine /\ LineRead.kind = "object") =>
            /\ IsPrefixOf(stdout, stdout')
            /\ "id" \in DOMAIN LineRead.msg =>
                    /\ Len(Printed) = 1
                    /\ Printed[1].id = LineRead.msg.id
            /\ ("method" \in DOMAIN LineRead.msg /\ "id" \notin DOMAIN LineRead.msg) =>
                    Printed = <<>>
      ]_vars

\* C3: a message whose method is none of initialize, tools/list, tools/call,
\* notifications/initialized is answered with a JSON-RPC error of code -32601
\* whose message contains the method name whenever it carried an id, for
\* every id value, and with nothing when it carried no id.
C3_MethodNotFound ==
    [][ ( /\ ReadsALine
          /\ LineRead.kind = "object"
          /\ "method" \in DOMAIN LineRead.msg
          /\ LineRead.msg.method \notin KnownMethods ) =>
            IF "id" \in DOMAIN LineRead.msg
                THEN /\ Len(Printed) = 1
                     /\ Printed[1].id = LineRead.msg.id
                     /\ "error" \in DOMAIN Printed[1]
                     /\ Printed[1].error.code = -32601
                     /\ LineRead.msg.method \in Range(Printed[1].error.message)
                ELSE Printed = <<>>
      ]_vars

\* C4: in every mode, tools/call with a tool name that is not in the current
\* mode's catalog yields a normal JSON-RPC result whose text content is
\* {error: "Unknown tool: <name>"} with the requested name, never a
\* JSON-RPC-level error and never a different error text.
C4_UnknownTool ==
    [][ ( /\ ReadsALine
          /\ LineRead.kind = "object"
          /\ Get(LineRead.msg, "method", NoneV) = "tools/call"
          /\ "id" \in DOMAIN LineRead.msg
          /\ "params" \in DOMAIN LineRead.msg
          /\ "name" \in DOMAIN LineRead.msg.params
          /\ LineRead.msg.params.name \notin Range(get_tools(srv)) ) =>
            Printed = <<Response(LineRead.msg.id,
                          ToolContent(Err(<<"Unknown tool: ",
                                            LineRead.msg.params.name>>)))>>
      ]_vars

\* run() from a server s over the entries es of standard input, each a line
\* with the environment of its pass: the server, the output, the stderr
\* writes and the context document at the end
RECURSIVE Replay(_, _, _)
Replay(st, tools_cached, es) ==
    IF es = <<>> THEN st
    ELSE LET r == LoopBody(st.srv, tools_cached, Head(es).line, Head(es).env)
         IN  Replay([srv |-> r.srv,
                     out |-> st.out \o r.out,
                     err |-> st.err + r.err,
                     file |-> IF r.file = NoneR THEN st.file ELSE r.file],
                    tools_cached, Tail(es))

\* es without its lines that are not valid JSON
IsValidJson(e) == e.line.kind # "malformed"
ValidJsonOnly(es) == SelectSeq(es, IsValidJson)

\* C2: a line that is not valid JSON produces no output and neither stops nor
\* desynchronises the loop: for any number and placement of malformed lines
\* the output, the stderr writes, the server and the context document are
\* those of the same input with the malformed lines taken out, so every valid
\* request still receives its own response.
C2_MalformedSkipped ==
    boot # NoneR =>
        LET booted == initialize(ServerInit, boot.auth, boot.doc).srv
            r == Replay([srv |-> booted, out |-> <<>>, err |-> 0, file |-> boot.doc],
                        tools, ValidJsonOnly(stdin_read))
        IN  /\ r.out = stdout
            /\ r.err = stderr
            /\ r.srv = srv
            /\ r.file = context_file

\* a malformed line, then tools/list with id 1: the only output is the
\* response to id 1 with the tool catalog
C2_Witness ==
    /\ Len(stdin_read) = 2
    /\ stdin_read[1].line = Malformed
    /\ stdin_read[2].line = Request(IntId(1), "tools/list")
    /\ stdout = <<Response(IntId(1), [tools |-> WarehouseTools])>>
    /\ stderr = 0
    /\ run_pc = "loop"

-----------------------------------------------------------------------------
(* Properties of the SQL and DAX tool paths *)

\* one of the words of the denylist occurs in the text, in any case
HasForbiddenKeyword(text) == FirstDangerous(Upper(text)) # 0

\* C6: every SQL-executing tool path (WarehouseAdapter.execute_sql and the
\* dispatcher's execute_sql tool) rejects any statement that contains, in any
\* case, one of INSERT, UPDATE, DELETE, DROP, TRUNCATE, ALTER, CREATE, EXEC:
\* such a statement is never passed to the database cursor, while
\* "SELECT * FROM t" is accepted and executed.
C6_DenylistGate ==
    /\ wa_call.op = "execute_sql" =>
        /\ HasForbiddenKeyword(wa_call.query) =>
                wa_call.executed = <<>> /\ wa_call.raised
        /\ wa_call.query = Sql_Select =>
                /\ wa_call.error.type # "ValueError"
                /\ ~wa_call.raised => wa_call.executed = <<Sql_Select>>
    /\ (tool_call.name = "execute_sql" /\ "query" \in DOMAIN tool_call.args) =>
        /\ HasForbiddenKeyword(tool_call.args.query) =>
                tool_call.sql = <<>> /\ "error" \in DOMAIN tool_call.result
        /\ (tool_call.args.query = Sql_Select /\ tool_call.conn_opened) =>
                tool_call.sql = <<[text |-> Sql_Select]>>

\* the trimmed text begins, in any case, with EVALUATE
BeginsWithEvaluate(text) == StartsWith(Upper(Strip(text)), Str_EVALUATE)

\* C7: SemanticModelAdapter.execute_dax on a connected adapter rejects, with a
\* ValueError whose message mentions EVALUATE, every query whose trimmed text
\* does not begin (in any case) with EVALUATE, and sends nothing to the
\* remote engine for such a query.
C7_RejectsNonEvaluate ==
    ( /\ sa_call.op = "execute_dax"
      /\ sa._connected_model_id \notin {NoneV, ""}
      /\ ~BeginsWithEvaluate(sa_call.query) ) =>
        /\ sa_call.raised
        /\ sa_call.error.type = "ValueError"
        /\ Contains(sa_call.error.message, Str_EVALUATE)
        /\ sa_call.sent = <<>>

\* "SELECT * FROM Table" given to an adapter connected to a model with its
\* XMLA endpoint set: ValueError, nothing sent
C7_Witness ==
    /\ sa_call.op = "execute_dax"
    /\ sa_call.query = Dax_Select
    /\ sa._connected_model_id = "m1"
    /\ sa._xmla_endpoint # NoneV
    /\ sa_call.raised
    /\ sa_call.error = Exc("ValueError", Msg_MustStartEvaluate)
    /\ sa_call.sent = <<>>

\* what a call site did with the query: "reject" (nothing went out),
\* "prepend" (EVALUATE and a space put in front of it) or "other"
PolicyOf(query, sent) ==
    IF sent = <<>> THEN "reject"
    ELSE IF sent = <<Str_EVALUATE_SP \o query>> THEN "prepend"
    ELSE "other"

\* the execute-DAX call sites whose last call got a query that does not begin
\* with EVALUATE, each with that query and what it did with it
DaxSites ==
    (IF /\ tool_call.name = "execute_dax"
        /\ ~Falsy(srv.dataset_id)
        /\ "query" \in DOMAIN tool_call.args
        /\ ~BeginsWithEvaluate(tool_call.args.query)
        THEN {[site |-> "handle_semantic", query |-> tool_call.args.query,
               policy |-> PolicyOf(tool_call.args.query,
                                   [i \in 1..Len(tool_call.rest) |->
                                        tool_call.rest[i].data.query])]}
        ELSE {})
    \cup
    (IF /\ sa_call.op = "execute_dax"
        /\ sa._connected_model_id \notin {NoneV, ""}
        /\ ~BeginsWithEvaluate(sa_call.query)
        THEN {[site |-> "SemanticModelAdapter", query |-> sa_call.query,
               policy |-> PolicyOf(sa_call.query, sa_call.sent)]}
        ELSE {})
    \cup
    (IF /\ xmla_call.op = "execute_dax"
        /\ ~BeginsWithEvaluate(xmla_call.query)
        THEN {[site |-> "XMLAClient", query |-> xmla_call.query,
               policy |-> PolicyOf(xmla_call.query, xmla_call.sent)]}
        ELSE {})

\* C8: all execute-DAX call sites apply one and the same policy to a query
\* that does not begin with EVALUATE: for the same such query the
\* dispatcher's execute_dax tool, SemanticModelAdapter.execute_dax and
\* XMLAClient.execute_dax either all reject it or all prepend EVALUATE to it.
C8_OneDaxPolicy ==
    \A a \in DaxSites, b \in DaxSites :
        a.query = b.query =>
            /\ a.policy = b.policy
            /\ a.policy \in {"reject", "prepend"}

\* the session fields of the server that select what a tool call works on
SessionState(s) == <<s.mode, s.workspace_id, s.dataset_id, s.sql_endpoint>>

\* the line that step read is a tools/call with a tool name
IsToolsCall ==
    /\ LineRead.kind = "object"
    /\ Get(LineRead.msg, "method", NoneV) = "tools/call"
    /\ "params" \in DOMAIN LineRead.msg
    /\ "name" \in DOMAIN LineRead.msg.params

\* the line that step read is a tools/call naming one of the tools
IsToolsCallOf(names) == IsToolsCall /\ LineRead.msg.params.name \in names

\* the step was a connect_dataset call that reported status "connected"
SuccessfulConnect ==
    /\ IsToolsCallOf({"connect_dataset"})
    /\ Get(tool_call'.result, "status", NoneV) = "connected"

\* C13: session state is changed by connect-style operations only: every
\* tools/call other than a successful connect_dataset, and every initialize,
\* tools/list or notification message, leaves the server's mode, workspace
\* id, dataset id and SQL endpoint unchanged.
C13_SessionFrame ==
    [][ (ReadsALine /\ ~SuccessfulConnect) =>
            SessionState(srv') = SessionState(srv)
      ]_vars

\* the step answered the tools/call with a normal result whose text is a
\* structured error
RejectedWithError ==
    /\ "error" \in DOMAIN tool_call'.result
    /\ Len(Printed) = 1
    /\ "result" \in DOMAIN Printed[1]
    /\ Printed[1].result = ToolContent(tool_call'.result)

\* C14: while the mode is not semantic, a tools/call naming a semantic tool
\* is rejected with a structured error and performs no semantic action (no
\* REST request, no change of the session, no write of the context document);
\* while the mode is not warehouse, a tools/call naming a warehouse tool is
\* rejected, opens no SQL connection and executes no statement.
C14_ModeGate ==
    [][ ReadsALine =>
          /\ (srv.mode # "semantic" /\ IsToolsCallOf(Range(SemanticTools))) =>
                /\ RejectedWithError
                /\ tool_call'.rest = <<>>
                /\ srv' = srv
                /\ tool_call'.file = NoneR
                /\ context_file' = context_file
          /\ (srv.mode # "warehouse" /\ IsToolsCallOf(Range(WarehouseTools))) =>
                /\ RejectedWithError
                /\ ~tool_call'.conn_opened
                /\ tool_call'.sql = <<>>
      ]_vars

\* connect_dataset was called in warehouse mode and the handler got as far as
\* an open SQL connection
C14_Witness ==
    /\ stdin_read # <<>>
    /\ srv.mode = "warehouse"
    /\ tool_call.name = "connect_dataset"
    /\ tool_call.conn_opened

\* the line that step read is a tools/list request
IsToolsList ==
    /\ LineRead.kind = "object"
    /\ Get(LineRead.msg, "method", NoneV) = "tools/list"

\* the catalog that step served
Served == Printed[1].result.tools

\* tools/list serves what get_tools returns for the server as it is now
CatalogIsCurrent ==
    [][ (ReadsALine /\ IsToolsList) =>
            /\ Len(Printed) = 1
            /\ Served = get_tools(srv)
      ]_vars

\* C15: at every point of the run loop tools/list returns the catalog of the
\* server's mode at that moment, also after any sequence of tools/call
\* requests: the semantic catalog exactly when the mode is semantic, the
\* warehouse catalog exactly when the mode is warehouse, never a catalog
\* computed for an earlier mode.
C15_CurrentCatalog ==
    [][ (ReadsALine /\ IsToolsList) =>
            /\ Len(Printed) = 1
            /\ Served = get_tools(srv)
            /\ Served = SemanticTools <=> srv.mode = "semantic"
            /\ Served = WarehouseTools <=> srv.mode = "warehouse"
      ]_vars

\* what the services did during the call of that step
EnvRead == Last(stdin_read').env

\* a remote call of that step raised: the REST request, the SQL connection
\* or the statement
RemoteCallRaised ==
    \/ tool_call'.rest # <<>> /\ EnvRead.rest # "ok"
    \/ srv.mode = "warehouse" /\ (~EnvRead.conn_ok \/ Falsy(srv.sql_endpoint))
    \/ tool_call'.sql # <<>> /\ ~EnvRead.exec_ok

\* C16: handle_tool never raises, whatever the tool name and arguments: an
\* exception raised by a remote call is caught and returned as
\* {error: <message>}, with the raw body of the response when the exception
\* carries one, so that tools/call always produces a normal JSON-RPC result.
C16_ErrorsReturned ==
    [][ (ReadsALine /\ IsToolsCall) =>
            /\ stderr' = stderr
            /\ Len(Printed) = 1
            /\ "result" \in DOMAIN Printed[1]
            /\ Printed[1].result = ToolContent(tool_call'.result)
            /\ RemoteCallRaised => "error" \in DOMAIN tool_call'.result
            /\ (tool_call'.rest # <<>> /\ EnvRead.rest = "http_error") =>
                    Get(tool_call'.result, "response", NoneV) = HTTPErrorResponse.text
      ]_vars

-----------------------------------------------------------------------------
(* Properties of the semantic tools *)

NeedsDataset ==
    {"get_tables", "get_columns", "get_measures", "get_relationships",
     "execute_dax", "get_dataset_info", "refresh_dataset", "create_measure",
     "delete_measure", "create_relationship"}

RequiredArgs(name) ==
    CASE name = "create_measure" -> {"table_name", "name", "expression"}
      [] name = "delete_measure" -> {"table_name", "name"}
      [] name = "create_relationship" ->
            {"from_table", "from_column", "to_table", "to_column"}
      [] OTHER -> {}

\* an identifier the called tool needs is in neither the arguments nor the
\* session
IdentifierAbsent(c) ==
    LET absent(k, held) == Falsy(Get(c.args, k, NoneV)) /\ Falsy(held)
    IN  \/ c.name = "list_datasets" /\ absent("workspace_id", c.before.workspace_id)
        \/ /\ c.name = "connect_dataset"
           /\ \/ absent("workspace_id", c.before.workspace_id)
              \/ absent("dataset_id", c.before.dataset_id)
        \/ c.name \in NeedsDataset /\ Falsy(c.before.dataset_id)
        \/ \E k \in RequiredArgs(c.name) : Falsy(Get(c.args, k, NoneV))

\* the last call was made in semantic mode
SemanticCall == tool_call.name # NoneV /\ tool_call.before.mode = "semantic"

\* C17: a call of a tool that needs an identifier (the workspace id for
\* list_datasets, workspace and dataset id for connect_dataset, a connected
\* dataset for the query, info, refresh and write tools, the required
\* arguments of the write tools), made when that identifier is absent from
\* both the arguments and the session, returns a structured {error: ...},
\* sends no remote request, generates no command and leaves the session alone.
C17_MissingIdentifier ==
    (SemanticCall /\ IdentifierAbsent(tool_call)) =>
        /\ "error" \in DOMAIN tool_call.result
        /\ "tmsl" \notin DOMAIN tool_call.result
        /\ tool_call.rest = <<>>
        /\ tool_call.file = NoneR
        /\ srv = tool_call.before

WriteTools == {"create_measure", "delete_measure", "create_relationship"}

\* the last call named a write tool, gave all its required arguments and was
\* made with a dataset connected
ValidWriteCall ==
    /\ SemanticCall
    /\ tool_call.name \in WriteTools
    /\ \A k \in RequiredArgs(tool_call.name) : ~Falsy(Get(tool_call.args, k, NoneV))
    /\ ~Falsy(tool_call.before.dataset_id)

\* C18: create_measure, delete_measure and create_relationship with valid
\* arguments return status "tmsl_generated" with the generated command and
\* send nothing whenever there is no execution transport or execution was not
\* requested; status "success" or "error" is reported only when the command
\* was sent.
C18_GeneratedNotSent ==
    /\ ( /\ ValidWriteCall
         /\ \/ tool_call.before.xmla_client = NoneV
            \/ ~Get(tool_call.args, "execute", TRUE) ) =>
            /\ Get(tool_call.result, "status", NoneV) = "tmsl_generated"
            /\ "tmsl" \in DOMAIN tool_call.result
            /\ tool_call.rest = <<>>
    /\ (SemanticCall /\ tool_call.name \in WriteTools
            /\ Get(tool_call.result, "status", NoneV) \in {"success", "error"}) =>
            tool_call.rest # <<>>

\* delete_measure was asked to execute (the default) on a server without a
\* transport, and handed the command back
C18_Witness ==
    /\ ValidWriteCall
    /\ tool_call.name = "delete_measure"
    /\ "execute" \notin DOMAIN tool_call.args
    /\ Get(tool_call.result, "status", NoneV) = "tmsl_generated"

-----------------------------------------------------------------------------
(* Properties of the measure operations and the TMSL generators *)

MeasureOps == {"upsert_measure", "delete_measure"}

\* C19: upsert_measure and delete_measure called with dry_run = true (the
\* default) return status "preview" together with the generated command and
\* make no remote call; a command is sent only when dry_run = false.
C19_DryRunPreview ==
    sa_call.op \in MeasureOps =>
        /\ sa_call.dry_run => sa_call.sent = <<>>
        /\ (sa_call.dry_run /\ ~sa_call.raised) =>
                /\ sa_call.result.status = "preview"
                /\ "tmsl" \in DOMAIN sa_call.result
                /\ sa_call.result.tmsl.json # EmptyDict
        /\ sa_call.sent # <<>> => ~sa_call.dry_run

\* a dry run of upsert_measure on a connected adapter whose endpoint is known
C19_Witness ==
    /\ sa_call.op = "upsert_measure"
    /\ sa_call.dry_run
    /\ ~sa_call.raised
    /\ sa._xmla_endpoint # NoneV
    /\ sa_call.result.status = "preview"

\* C20: generate_measure_upsert(name, formula, table) yields a command whose
\* target table is the given table, whose measure name and expression are
\* the given name and formula and whose database field is the unresolved
\* placeholder; generate_measure_delete and the creation of a relationship
\* keep to the same discipline: no generated command names a resolved
\* database.
C20_PlaceholderDiscipline ==
    /\ (sa_call.op = "upsert_measure" /\ ~sa_call.raised /\ ~Falsy(sa_call.table)) =>
            LET tmsl == sa_call.result.tmsl.json
            IN  /\ DOMAIN tmsl = {"createOrReplace"}
                /\ tmsl.createOrReplace.object.table = sa_call.table
                /\ tmsl.createOrReplace.measure.name = sa_call.result.measure_name
                /\ tmsl.createOrReplace.measure.expression = sa_call.formula
                /\ tmsl.createOrReplace.object.database = Placeholder
    /\ (sa_call.op = "delete_measure" /\ ~sa_call.raised) =>
            LET tmsl == sa_call.result.tmsl.json
            IN  /\ tmsl.delete.object.measure = sa_call.result.measure_name
                /\ tmsl.delete.object.database = Placeholder
    /\ (tool_call.name = "create_relationship" /\ "tmsl" \in DOMAIN tool_call.result) =>
            tool_call.result.tmsl.createOrReplace.object.database = Placeholder

\* the strings of a command: those of its object part and of its other parts
CommandLeafs(cmd) ==
    UNION {UNION {{cmd[c][part][k] : k \in DOMAIN cmd[c][part]} :
                    part \in DOMAIN cmd[c]} : c \in DOMAIN cmd}

\* the two commands differ in nothing but the database field of the object
SameButDatabase(a, b) ==
    /\ DOMAIN a = DOMAIN b
    /\ \A c \in DOMAIN a :
        /\ DOMAIN a[c] = DOMAIN b[c]
        /\ \A part \in DOMAIN a[c] :
            /\ DOMAIN a[c][part] = DOMAIN b[c][part]
            /\ \A k \in DOMAIN a[c][part] :
                (part = "object" /\ k = "database") \/ a[c][part][k] = b[c][part][k]

\* C21: when upsert_measure or delete_measure executes (dry_run = false) the
\* command handed to the remote client has its database field set to the
\* connected model's name (the model id when the name is unknown) and holds
\* no unresolved placeholder, while the measure name, table and expression
\* are exactly those the generator produced from the caller's arguments.
C21_ResolvedCommand ==
    (sa_call.op \in MeasureOps /\ sa_call.sent # <<>>) =>
        LET cmd == sa_call.sent[1].json
            generated == sa_call.result.tmsl.json
        IN  /\ \A c \in DOMAIN cmd :
                cmd[c].object.database =
                    Or(sa._connected_model_name, sa._connected_model_id)
            /\ Placeholder \notin CommandLeafs(cmd)
            /\ SameButDatabase(cmd, generated)

-----------------------------------------------------------------------------
(* Properties of the utility functions *)

Str_parentheses == <<"p", "a", "r", "e", "n", "t", "h", "e", "s", "e", "s">>
Str_brackets == <<"b", "r", "a", "c", "k", "e", "t", "s">>

-----------------------------------------------------------------------------
(* Properties of the resource handling of the adapters *)

\* the bound a call has to respect: the limit of the configuration, or what
\* the caller asked for when that is smaller
RowBound(limit, max_rows) ==
    IF max_rows = NoInt THEN limit ELSE Min(limit, max_rows[1])

\* C23: every query tool returns at most the maximum number of rows that the
\* Limits give (or the caller's maximum when that is smaller), even when the
\* backend holds more and even when the caller asks for more: execute_dax
\* never more than max_dax_rows (or max_rows), execute_sql never more than
\* max_sql_result_rows, sample_rows never more than the sample limit.
C23_RowLimits ==
    /\ (wa_call.op = "execute_sql" /\ ~wa_call.raised) =>
            wa_call.rows <= RowBound(limits.max_sql_result_rows, wa_call.max_rows)
    /\ (wa_call.op = "sample_rows" /\ ~wa_call.raised) =>
            wa_call.rows <= RowBound(limits.sample_rows, wa_call.max_rows)
    /\ (sa_call.op = "execute_dax" /\ ~sa_call.raised) =>
            sa_call.rows <= RowBound(limits.max_dax_rows, sa_call.max_rows)

\* C24: every warehouse tool call releases the connection or cursor it
\* opened on every exit path, the paths where executing or fetching raises
\* included: after the call has returned, no connection or cursor that the
\* call opened is still open.
C24_ResourcesReleased ==
    /\ tool_call.conn_opened => ~tool_call.conn_open
    /\ wa_call.op \in {"execute_sql", "sample_rows"} => ~wa_call.cursor_open

-----------------------------------------------------------------------------
(* Properties of the server under an endpoint that may not answer *)

\* the tools/call lines read so far that name a tool
ToolsCallsRead ==
    SelectSeq(stdin_read,
              LAMBDA e : /\ e.line.kind = "object"
                         /\ Get(e.line.msg, "method", NoneV) = "tools/call"
                         /\ "params" \in DOMAIN e.line.msg
                         /\ "name" \in DOMAIN e.line.msg.params)

\* the tool results printed so far
ToolResultsPrinted ==
    SelectSeq(stdout,
              LAMBDA m : /\ "result" \in DOMAIN m
                         /\ "content" \in DOMAIN m.result)

\* C25: every tools/call eventually produces its response, even when the
\* remote endpoint never answers: each network call is bounded by a timeout
\* (a stalled call surfacing as the result {error: "timeout"}), and the stdio
\* loop goes on to read the next line.  Once n tools/call lines have been
\* read, n tool results are eventually printed.
C25_CallAnswered ==
    \A n \in 1..MaxLines :
        (Len(ToolsCallsRead) >= n) ~> (Len(ToolResultsPrinted) >= n)

-----------------------------------------------------------------------------
(* Properties of the connection handling of WarehouseAdapter *)

\* the call got as far as _get_connection
UsesConnection(c) ==
    \/ c.op \in {"connect", "sample_rows"}
    \/ c.op = "execute_sql" /\ SqlVerdict[c.query] = NoExc

\* the last adapter call was one of those that need the connection
UsesConnectionOps == wa_call.op \in {"connect", "execute_sql", "sample_rows"}

\* C26: WarehouseAdapter keeps a single connection handle: _get_connection
\* creates it lazily on first use, returns the same handle on later calls as
\* long as the liveness probe succeeds, discards it and creates a new one
\* when the probe fails, and creates a new one after close(); it fails
\* without connecting when no SQL endpoint has been set.
C26_SingleHandle ==
    [][ LET c == wa_call'
            held == wa._connection # NoneR
        IN  /\ c.op = "close" => wa'._connection = NoneR
            /\ UsesConnection(c) =>
                \* no handle yet (first use, or after close): one is created
                /\ ~held => /\ ~c.probed
                            /\ c.opened <=> wa'._connection # NoneR
                            /\ ~c.raised => c.opened
                \* the probe succeeds: the same handle, nothing new
                /\ (held /\ ~c.discarded) =>
                            /\ c.probed /\ ~c.opened /\ ~c.token_acquired
                            /\ wa'._connection = wa._connection
                \* the probe fails: the handle is dropped and a new one created
                /\ (held /\ c.discarded) =>
                            /\ c.probed
                            /\ c.opened <=> wa'._connection # NoneR
                            /\ ~c.raised => c.opened
                \* no endpoint: an error, no token, no connection
                /\ (~held /\ Falsy(wa'._sql_endpoint)) =>
                            /\ c.raised /\ ~c.opened /\ ~c.token_acquired
                            /\ c.error = Exc("RuntimeError", Msg_EndpointNotSet)
    ]_vars

\* a call found the pooled connection dead and opened a new one
C26_Witness ==
    /\ wa_call.op = "execute_sql"
    /\ wa_call.discarded /\ wa_call.opened /\ ~wa_call.raised

\* C27: every fresh warehouse connection is opened with an access token
\* acquired from the credential provider and binary-encoded during that same
\* connection attempt; a token obtained for an earlier connection is never
\* reused, and no connection is attempted when the provider returns no token.
C27_FreshToken ==
    /\ UsesConnectionOps =>
        \* pyodbc.connect is only called with the token packed in this call
        /\ wa_call.connect_called =>
                /\ wa_call.token_acquired
                /\ wa_call.token_bytes = get_sql_token_bytes(SqlToken(TRUE))
                /\ wa_call.token_bytes.length_prefix
                        = 2 * Len(wa_call.token_bytes.utf_16_le)
        /\ wa_call.opened =>
                /\ wa_call.connect_called
                /\ wa._connection.attrs_before = wa_call.token_bytes
        \* no token: no attempt
        /\ (wa_call.token_acquired /\ wa_call.token_bytes = NoneR) =>
                /\ ~wa_call.connect_called
                /\ wa_call.raised
    /\ tool_call.conn_attempted =>
            /\ tool_call.sql_token_requested
            /\ tool_call.tokenstruct = SqlTokenStruct(SqlToken(TRUE)[1])
    /\ tool_call.conn_opened => tool_call.conn_attempted
    /\ (tool_call.sql_token_requested /\ tool_call.tokenstruct = NoneR) =>
            /\ ~tool_call.conn_attempted
            /\ "error" \in DOMAIN tool_call.result

\* the adapter replaced a dead connection and the dispatcher opened one
C27_Witness ==
    /\ wa_call.op = "execute_sql" /\ wa_call.discarded /\ wa_call.opened
    /\ tool_call.name = "execute_sql" /\ tool_call.conn_opened

-----------------------------------------------------------------------------
(* Properties of the requests to the semantic engine *)

\* C28: no request is sent to the semantic remote engine without a bearer
\* token obtained from the credential provider for the semantic scope: when
\* the provider yields no token the call ends in an error and nothing is
\* sent.
C28_BearerToken ==
    /\ \A i \in 1..Len(tool_call.rest) : tool_call.rest[i].bearer # NoneV
    /\ (tool_call.name # NoneV /\ boot.auth = "no_token") => tool_call.rest = <<>>

-----------------------------------------------------------------------------
(* Properties of the persisted session document *)

\* the last tool call was a connect_dataset that reported "connected"
ConnectSucceeded ==
    /\ tool_call.name = "connect_dataset"
    /\ Get(tool_call.result, "status", NoneV) = "connected"

\* the fields of the session document
DocumentFields ==
    {"mode", "workspace_id", "workspace_name", "item_id", "item_name", "sql_endpoint"}

\* C29: the persisted session document is written whenever, and only when, a
\* connect-style tool succeeds, and it round-trips: after a successful
\* connect_dataset(workspace, dataset) the document carries the fields
\* {mode, workspace id, workspace name, item id, item name, sql endpoint}
\* describing that connection, and a server initialised afterwards resumes
\* with exactly that mode, workspace id and dataset id.
C29_SessionDocument ==
    /\ (tool_call.file # NoneR) <=> ConnectSucceeded
    /\ ConnectSucceeded =>
        LET resumed == initialize(ServerInit, "ok", context_file).srv
        IN  /\ context_file = tool_call.file
            /\ DOMAIN context_file = DocumentFields
            /\ context_file.mode = "semantic"
            /\ context_file.workspace_id = tool_call.result.workspace_id
            /\ context_file.item_id = tool_call.result.dataset_id
            /\ resumed.mode = "semantic"
            /\ resumed.workspace_id = tool_call.result.workspace_id
            /\ resumed.dataset_id = tool_call.result.dataset_id

-----------------------------------------------------------------------------
(* Properties of XMLAClient.execute_tmsl *)

\* C30: XMLAClient.execute_tmsl classifies a write command's response by
\* scanning the body: status "success" when the body contains "success"
\* (case-insensitive), otherwise "error" when it contains "error", otherwise
\* "unknown"; the returned status is always one of these three and every
\* result carries a message.
C30_TmslClassification ==
    (xmla_call.op = "execute_tmsl" /\ ~xmla_call.raised) =>
        LET text == Lower(xmla_call.body)
            r == xmla_call.result
        IN  /\ r.status = IF Contains(text, Str_success) THEN "success"
                          ELSE IF Contains(text, Str_error) THEN "error"
                          ELSE "unknown"
            /\ r.status \in {"success", "error", "unknown"}
            /\ "message" \in DOMAIN r

-----------------------------------------------------------------------------
(* Properties of the connected check of SemanticModelAdapter *)

NeedsConnectedModel ==
    sa_call.op \in {"execute_dax", "get_schema", "upsert_measure", "delete_measure"}

NotConnectedError == Exc("RuntimeError", Msg_NotConnected)

\* C31: execute_dax, get_schema, upsert_measure and delete_measure on a
\* SemanticModelAdapter on which connect() has never been called fail with a
\* "Not connected" RuntimeError, before any query validation and without any
\* remote call; after connect(model_id) they no longer fail with that error.
C31_ConnectedCheck ==
    NeedsConnectedModel =>
        /\ sa._connected_model_id = NoneV =>
                /\ sa_call.raised
                /\ sa_call.error = NotConnectedError
                /\ sa_call.sent = <<>>
        /\ sa._connected_model_id # NoneV => sa_call.error # NotConnectedError

-----------------------------------------------------------------------------
(* Properties of the argument checks of WarehouseAdapter *)

\* C32: profile_table and sample_rows reject, with a ValueError, every table
\* argument that does not split on '.' into exactly two parts (no schema,
\* more than two parts, empty string), and do so before obtaining a
\* connection or executing any statement.  An argument splits into exactly
\* two parts when it holds exactly one '.'.
C32_SchemaTableFormat ==
    (wa_call.op \in {"profile_table", "sample_rows"}
        /\ Count(wa_call.schema_table, ".") # 1) =>
            /\ wa_call.raised
            /\ wa_call.error.type = "ValueError"
            /\ ~wa_call.probed /\ ~wa_call.token_acquired
            /\ ~wa_call.connect_called /\ ~wa_call.opened
            /\ wa_call.executed = <<>> /\ ~wa_call.cursor_open

\* a connected adapter rejected a table argument of three parts
C32_Witness ==
    /\ wa_call.op = "profile_table"
    /\ wa_call.schema_table = <<"s", ".", "s", ".">>
    /\ wa_call.raised
    /\ wa._connection # NoneR

\* the statement does not start with SELECT or holds a forbidden keyword
RejectedStatement(query) ==
    \/ ~StartsWith(Upper(Strip(query)), Str_SELECT)
    \/ \E k \in 1..Len(Dangerous) : Contains(Upper(Strip(query)), Dangerous[k])

\* C33: WarehouseAdapter.execute_sql validates the statement before touching
\* the backend: for a rejected statement no token is acquired, no connection
\* is opened or probed, and no cursor is created; the order is always
\* validate, then obtain connection, then execute.
C33_ValidateFirst ==
    wa_call.op = "execute_sql" =>
        /\ RejectedStatement(wa_call.query) =>
                /\ wa_call.raised
                /\ wa_call.error.type = "ValueError"
                /\ ~wa_call.token_acquired /\ ~wa_call.connect_called
                /\ ~wa_call.opened /\ ~wa_call.probed
                /\ wa_call.executed = <<>> /\ ~wa_call.cursor_open
        \* whatever reached the connection had passed the validation, and
        \* whatever was executed had a connection
        /\ (wa_call.probed \/ wa_call.token_acquired) =>
                ~RejectedStatement(wa_call.query)
        /\ wa_call.executed # <<>> =>
                /\ wa_call.probed \/ wa_call.opened
                /\ wa._connection # NoneR

\* an adapter holding a connection rejected a statement
C33_Witness ==
    /\ wa_call.op = "execute_sql"
    /\ RejectedStatement(wa_call.query)
    /\ wa_call.raised
    /\ wa._connection # NoneR

-----------------------------------------------------------------------------
(* Properties of the mode of the ContextManager *)

\* C34: in ContextManager the mode always agrees with the contexts: in every
\* reachable state mode = SEMANTIC_MODEL exactly when semantic_context is
\* non-null, mode = DATA_WAREHOUSE exactly when warehouse_context is
\* non-null, and mode = NONE exactly when both are null.
C34_ModeAgreesWithContexts ==
    /\ mode = SEMANTIC_MODEL <=> semantic_context # NoneR
    /\ mode = DATA_WAREHOUSE <=> warehouse_context # NoneR
    /\ mode = NONE <=> (semantic_context = NoneR /\ warehouse_context = NoneR)

\* clear() was called on a manager that had a connection
C34_Witness ==
    /\ cm_call.op = "clear"
    /\ cm_call.prior.mode # NONE
    /\ mode = NONE
    /\ semantic_context = NoneR /\ warehouse_context = NoneR

-----------------------------------------------------------------------------
(* Properties of the dataset a session is connected to *)

\* the database a generated command is aimed at
TargetDatabase(tmsl) ==
    IF "delete" \in DOMAIN tmsl THEN tmsl.delete.object.database
    ELSE tmsl.createOrReplace.object.database

ConnectFailed ==
    /\ tool_call.name = "connect_dataset"
    /\ "error" \in DOMAIN tool_call.result

\* C36: if connect_dataset returns an error (an identifier is missing, or the
\* persisted context document cannot be written), the server's in-memory
\* workspace id and dataset id are unchanged, so the in-memory session and
\* the persisted document never disagree about which dataset is connected.
C36_FailedConnectKeepsSession ==
    ConnectFailed =>
        /\ srv.workspace_id = tool_call.before.workspace_id
        /\ srv.dataset_id = tool_call.before.dataset_id
        /\ srv.dataset_id = context_file.item_id

-----------------------------------------------------------------------------
(* Properties of the tool catalog *)

\* the last call named a tool that tools/list advertised when it was made
ListedToolCalled ==
    /\ tool_call.name # "None"
    /\ tool_call.name \in Range(get_tools(tool_call.before))

\* the call was answered with "Unknown tool" or "Unknown mode"
NotDispatched ==
    /\ "error" \in DOMAIN tool_call.result
    /\ tool_call.result.error # <<>>
    /\ tool_call.result.error[1] \in {"Unknown tool: ", "Unknown mode: "}

\* C37: for every mode value the server can load from the persisted context
\* document, each tool advertised by tools/list is dispatchable by tools/call
\* in that same mode: a listed tool is never answered with "Unknown tool" or
\* "Unknown mode".
C37_ListedToolsDispatch == ListedToolCalled => ~NotDispatched

-----------------------------------------------------------------------------
(* Properties of the status of an applied measure command *)

\* a non-dry-run upsert_measure or delete_measure that returned a result
MeasureApplied ==
    /\ sa_call.op \in {"upsert_measure", "delete_measure"}
    /\ ~sa_call.dry_run
    /\ sa_call.result # NoneR

\* C38: for a non-dry-run upsert_measure or delete_measure, the status in the
\* returned result equals the status the Remote Execution Client produced for
\* the response (success, error or unknown); status "error" is returned only
\* when the client classified the response as error or the remote call raised.
C38_StatusFromClient ==
    MeasureApplied =>
        IF sa_call.execution_result # NoneR
            THEN sa_call.result.status = sa_call.execution_result.status
            ELSE sa_call.result.status = "error"

-----------------------------------------------------------------------------
(* Properties of the warehouse the adapter is connected to *)

\* the last operation executed a statement on the adapter's connection
StatementExecuted ==
    /\ wa_call.op # "__init__"
    /\ wa_call.executed # <<>>
    /\ wa._connection # NoneR

\* C39: after WarehouseAdapter.connect(endpoint, database) returns, every
\* statement the adapter executes runs on a connection opened to that endpoint
\* and database; a pooled connection opened for a previously connected
\* endpoint is never reused after connecting to a different one.
C39_ConnectionMatchesTarget ==
    StatementExecuted =>
        /\ wa._connection.endpoint = wa._sql_endpoint
        /\ wa._connection.database =
              (IF wa._database \in {NoneV, ""} THEN "master" ELSE wa._database)

====
